---- MODULE Spec2Model ----
(***************************************************************************)
(* A model of the Cal.com MCP server: the retrying upstream client         *)
(* (CalcomClient), the feature registry (FeatureRegistry) and the server   *)
(* start-up / request path (createMcpServer, startServer), and the         *)
(* Cal.com service with its tool handlers (CalcomService).                  *)
(***************************************************************************)
EXTENDS Integers, Sequences, FiniteSets, TLC

\* ------------------------------------------------------------------------
\* Bounds of the model
\* ------------------------------------------------------------------------

\* largest retryConfig.maxRetries a client is constructed with
MaxRetriesBound == 3

\* number of inbound requests (server) / of further registerAllFeatures calls (registry)
MaxRequests == 2

\* longest list of event types the upstream answers with
MaxTypes == 2

\* operations called on the service one after the other
MaxOperations == 2

\* ------------------------------------------------------------------------
\* State
\* ------------------------------------------------------------------------

VARIABLES
  retryConfig,  \* CalcomClient.retryConfig: [maxRetries, baseDelay, maxDelay]
  cpc,          \* per client call: where its makeRequest chain stands
  attempt,      \* per client call: the `attempt` argument of the current makeRequest frame
  reqLog,       \* per client call: what each issued request came back with, in order
  issued,       \* per client call: number of axiosInstance.request invocations
  delays,       \* per client call: the delays handed to sleep(), in order
  caught,       \* per client call: the axios error the catch block handed to handleError
  result,       \* per client call: the response returned or the CalcomClientError thrown
  mode,         \* ServerMode the process was started with
  canLoadOf,    \* per feature object: what its canLoad() does (configuration)
  features,     \* FeatureRegistry.features: Map name -> Feature, in insertion order
  registeredFeatures, \* FeatureRegistry.registeredFeatures: Map name -> result, in insertion order
  tpc,          \* per task: where it stands
  idx,          \* per task: position of its registerAllFeatures loop in features
  results,      \* per task: the local results list of its registerAllFeatures call
  awaited,      \* per task: the feature whose register() its loop awaits
  summary,      \* per task: the partition sizes createMcpServer read for its log summary
  registerCalls, \* per feature object: number of register() invocations so far
  svcPc,        \* where the service operation under way stands
  svcIn,        \* the operation called on the service, by whom and with which input
  args,         \* the arguments the service handed to the client method
  config,       \* per client call: the request config handed to makeRequest
  eventTypes,   \* the list getEventTypes returned to the operation that ended on it
  lookup,       \* whether the list getSlotsForEventType fetched held the id: "none" before
  eventType,    \* the event type getSlotsForEventType found
  options,      \* the options getEventTypeOptions returned
  collation,    \* the collation localeCompare applied in the sort
  thrown,       \* the error the service operation rejected with
  response,     \* what the tool handler returned
  abandoned,    \* per client call: whether its caller stopped waiting for it
  calcomClient, \* CalcomService.calcomClient: 0 for null, else the number of the instance
  client,       \* the instance the operation under way got from getCalcomClient(), 0 for none
  operations,   \* number of operations called on the service so far
  cleanupOf,    \* per feature object: whether it defines cleanup() and what that does
  cleanupCalls, \* per feature object: number of cleanup() invocations so far
  cleanupPc,    \* where the call of FeatureRegistry.cleanup() stands
  cleanupPromises, \* what the cleanup() calls handed to Promise.all do, in order
  handle        \* the map a caller got from getRegistrationResults()

clientVars == <<retryConfig, cpc, attempt, reqLog, issued, delays, caught, result>>

registryVars == <<mode, canLoadOf, features, registeredFeatures, tpc, idx, results,
                  awaited, summary, registerCalls>>

serviceVars == <<svcPc, svcIn, args, config, eventTypes, lookup, eventType, options,
                 collation, thrown, response>>

vars == <<retryConfig, cpc, attempt, reqLog, issued, delays, caught, result,
          mode, canLoadOf, features, registeredFeatures, tpc, idx, results,
          awaited, summary, registerCalls,
          svcPc, svcIn, args, config, eventTypes, lookup, eventType, options,
          collation, thrown, response, abandoned,
          calcomClient, client, operations,
          cleanupOf, cleanupCalls, cleanupPc, cleanupPromises, handle>>

singletonVars == <<calcomClient, client, operations>>

upkeepVars == <<cleanupOf, cleanupCalls, cleanupPc, cleanupPromises, handle>>

\* ------------------------------------------------------------------------
\* The retrying client (calcom.client.ts)
\* ------------------------------------------------------------------------

\* logical client calls that may run on the one client instance
Calls == {"c1", "c2"}

\* HTTP statuses the upstream may answer with
Statuses == {200, 204, 304, 400, 401, 499, 500, 503, 599, 600}

\* retryConfig values a client may be constructed with (maxRetries >= 1,
\* baseDelay > 0, maxDelay >= baseDelay); the second pair is the constructor's default
DelayPairs == {<<100, 1000>>, <<1000, 10000>>, <<100, 100>>, <<100, 150>>, <<300, 1000>>}

RetryConfigs ==
  { [maxRetries |-> m, baseDelay |-> p[1], maxDelay |-> p[2]] :
      m \in 1..MaxRetriesBound, p \in DelayPairs }

\* a field of the upstream payload that is not there (undefined)
Absent == "<absent>"

\* values of error.message / error.code in an upstream error payload
PayloadMessages == {Absent, "", "Invalid parameters"}
PayloadCodes == {Absent, "", "BAD_REQUEST"}

\* what one axiosInstance.request can end with: a response (any status, with a
\* payload), or an error without response (request sent or never set up)
Outcomes ==
  { [resp |-> TRUE, req |-> TRUE, status |-> s, message |-> m, code |-> c] :
      s \in Statuses, m \in PayloadMessages, c \in PayloadCodes }
  \cup
  { [resp |-> FALSE, req |-> q, status |-> 0, message |-> Absent, code |-> Absent] :
      q \in BOOLEAN }

\* no error caught yet
NoOutcome == [resp |-> FALSE, req |-> FALSE, status |-> 0, message |-> Absent, code |-> Absent]

\* a request promise that resolves for 200 only
Resolves_only200(o) == o.resp /\ o.status = 200

\* axios resolves the request promise for 2xx and rejects it otherwise
Resolves(o) == o.resp /\ o.status >= 200 /\ o.status < 300

\* shouldRetry with the upper bound of the retried range included
shouldRetry_through600(o) ==
  IF ~o.resp THEN TRUE
  ELSE o.status >= 500 /\ o.status <= 600

\* shouldRetry with the lower bound of the retried range slipped to 400
shouldRetry_from400(o) ==
  IF ~o.resp THEN TRUE
  ELSE o.status >= 400 /\ o.status < 600

\* shouldRetry(error)
shouldRetry(o) ==
  IF ~o.resp THEN TRUE
  ELSE o.status >= 500 /\ o.status < 600

Min(a, b) == IF a <= b THEN a ELSE b

\* calculateDelay with the exponent off by one (2^attempt)
calculateDelay_exponent(cfg, n) == Min(cfg.baseDelay * 2^n, cfg.maxDelay)

\* calculateDelay without the cap at maxDelay
calculateDelay_uncapped(cfg, n) == cfg.baseDelay * 2^(n - 1)

\* calculateDelay(attempt)
calculateDelay(cfg, n) == Min(cfg.baseDelay * 2^(n - 1), cfg.maxDelay)

\* JavaScript's a || b on optional strings: b when a is undefined or empty
OrElse(a, b) == IF a = Absent \/ a = "" THEN b ELSE a

\* handleError that ignores the upstream payload
handleError_ignoresPayload(o) ==
  IF o.resp
  THEN [kind |-> "error", hasStatus |-> TRUE, statusCode |-> o.status,
        message |-> "HTTP " \o ToString(o.status) \o " error", code |-> "HTTP_ERROR"]
  ELSE [kind |-> "error", hasStatus |-> FALSE, statusCode |-> 0,
        message |-> "Network error: Unable to reach Cal.com API", code |-> Absent]

\* handleError(error): the CalcomClientError built from a failed attempt
handleError(o) ==
  IF o.resp
  THEN [kind |-> "error", hasStatus |-> TRUE, statusCode |-> o.status,
        message |-> OrElse(o.message, "HTTP " \o ToString(o.status) \o " error"),
        code |-> OrElse(o.code, "HTTP_ERROR")]
  ELSE IF o.req
  THEN [kind |-> "error", hasStatus |-> FALSE, statusCode |-> 0,
        message |-> "Network error: Unable to reach Cal.com API", code |-> Absent]
  ELSE [kind |-> "error", hasStatus |-> FALSE, statusCode |-> 0,
        message |-> "Request error: <message>", code |-> Absent]

NoResult == [kind |-> "none", hasStatus |-> FALSE, statusCode |-> 0,
             message |-> Absent, code |-> Absent]

ResponseResult(o) == [kind |-> "response", hasStatus |-> TRUE, statusCode |-> o.status,
                      message |-> o.message, code |-> o.code]

\* the catch block's guard with > in place of >=
GivesUp_offByOne(cfg, n, o) == n > cfg.maxRetries \/ ~shouldRetry(o)

\* the guard of the catch block of makeRequest: give up on this attempt
GivesUp(cfg, n, o) == n >= cfg.maxRetries \/ ~shouldRetry(o)

\* enclosing frames that catch the rejection of the frame they returned and
\* hand it to handleError again: a CalcomClientError has neither response
\* nor request
Propagate_rewraps(k, e) == IF k = 0 THEN e ELSE handleError(NoOutcome)

\* the error thrown by the frame of attempt k + 1 as it leaves the k
\* enclosing frames: each of them returned the promise of the next frame
\* from its catch block, outside its try, and settles as that promise does
RECURSIVE Propagate(_, _)
Propagate(k, e) == IF k = 0 THEN e ELSE Propagate(k - 1, e)

\* a domain method calls makeRequest(config): attempt defaults to 1 and the
\* request is handed to axios
StartCall(c) ==
  /\ cpc[c] = "ready"
  /\ cpc' = [cpc EXCEPT ![c] = "inflight"]
  /\ attempt' = [attempt EXCEPT ![c] = 1]
  /\ issued' = [issued EXCEPT ![c] = @ + 1]
  /\ UNCHANGED <<retryConfig, reqLog, delays, caught, result>>
  /\ UNCHANGED <<registryVars, serviceVars, abandoned, singletonVars, upkeepVars>>

\* the awaited request resolves: makeRequest returns the response
RequestResolves(c) ==
  /\ cpc[c] = "inflight"
  /\ \E o \in Outcomes :
       /\ Resolves(o)
       /\ reqLog' = [reqLog EXCEPT ![c] = Append(@, [resp |-> o.resp, status |-> o.status])]
       /\ result' = [result EXCEPT ![c] = ResponseResult(o)]
  /\ cpc' = [cpc EXCEPT ![c] = "returned"]
  /\ UNCHANGED <<retryConfig, attempt, issued, delays, caught>>
  /\ UNCHANGED <<registryVars, serviceVars, abandoned, singletonVars, upkeepVars>>

\* a catch block that sleeps before it throws
RequestFails_sleepsFirst(c) ==
  /\ cpc[c] = "inflight"
  /\ \E o \in Outcomes :
       /\ ~Resolves(o)
       /\ GivesUp(retryConfig, attempt[c], o)
       /\ reqLog' = [reqLog EXCEPT ![c] = Append(@, [resp |-> o.resp, status |-> o.status])]
       /\ caught' = [caught EXCEPT ![c] = o]
       /\ result' = [result EXCEPT ![c] = handleError(o)]
  /\ delays' = [delays EXCEPT ![c] = Append(@, calculateDelay(retryConfig, attempt[c]))]
  /\ cpc' = [cpc EXCEPT ![c] = "threw"]
  /\ UNCHANGED <<retryConfig, attempt, issued>>
  /\ UNCHANGED <<registryVars, serviceVars, abandoned, singletonVars, upkeepVars>>

\* the awaited request rejects and the catch block throws handleError(error);
\* the frames of the earlier attempts pass the error on
RequestFails(c) ==
  /\ cpc[c] = "inflight"
  /\ \E o \in Outcomes :
       /\ ~Resolves(o)
       /\ GivesUp(retryConfig, attempt[c], o)
       /\ reqLog' = [reqLog EXCEPT ![c] = Append(@, [resp |-> o.resp, status |-> o.status])]
       /\ caught' = [caught EXCEPT ![c] = o]
       /\ result' = [result EXCEPT ![c] = Propagate(attempt[c] - 1, handleError(o))]
  /\ cpc' = [cpc EXCEPT ![c] = "threw"]
  /\ UNCHANGED <<retryConfig, attempt, issued, delays>>
  /\ UNCHANGED <<registryVars, serviceVars, abandoned, singletonVars, upkeepVars>>

\* the awaited request rejects and the catch block starts the backoff sleep
RequestRetries(c) ==
  /\ cpc[c] = "inflight"
  /\ \E o \in Outcomes :
       /\ ~Resolves(o)
       /\ ~GivesUp(retryConfig, attempt[c], o)
       /\ reqLog' = [reqLog EXCEPT ![c] = Append(@, [resp |-> o.resp, status |-> o.status])]
  /\ delays' = [delays EXCEPT ![c] = Append(@, calculateDelay(retryConfig, attempt[c]))]
  /\ cpc' = [cpc EXCEPT ![c] = "sleeping"]
  /\ UNCHANGED <<retryConfig, attempt, issued, caught, result>>
  /\ UNCHANGED <<registryVars, serviceVars, abandoned, singletonVars, upkeepVars>>

\* a timer that never calls back
Wake_timerLost(c) == cpc[c] = "sleeping" /\ UNCHANGED vars

\* the attempt counter kept on the client instead of in the frame
Wake_sharedCounter(c) ==
  /\ cpc[c] = "sleeping"
  /\ attempt' = [d \in Calls |-> attempt[c] + 1]
  /\ issued' = [issued EXCEPT ![c] = @ + 1]
  /\ cpc' = [cpc EXCEPT ![c] = "inflight"]
  /\ UNCHANGED <<retryConfig, reqLog, delays, caught, result>>
  /\ UNCHANGED <<registryVars, serviceVars, abandoned, singletonVars, upkeepVars>>

\* the sleep timer fires: makeRequest(config, attempt + 1) issues the next request
Wake(c) ==
  /\ cpc[c] = "sleeping"
  /\ attempt' = [attempt EXCEPT ![c] = @ + 1]
  /\ issued' = [issued EXCEPT ![c] = @ + 1]
  /\ cpc' = [cpc EXCEPT ![c] = "inflight"]
  /\ UNCHANGED <<retryConfig, reqLog, delays, caught, result>>
  /\ UNCHANGED <<registryVars, serviceVars, abandoned, singletonVars, upkeepVars>>

\* the caller of call c stops waiting for it while it is under way (its own
\* request was cancelled or timed out): makeRequest takes no signal and
\* sleep() keeps no handle of its timer, so nothing of the call changes
Abandon(c) ==
  /\ cpc[c] \in {"inflight", "sleeping"}
  /\ ~abandoned[c]
  /\ abandoned' = [abandoned EXCEPT ![c] = TRUE]
  /\ UNCHANGED <<clientVars, registryVars, serviceVars, singletonVars, upkeepVars>>

\* ------------------------------------------------------------------------
\* The feature registry (infra/features.ts) and the features it is given
\* ------------------------------------------------------------------------

\* feature objects: the two the server ships, one written after the README,
\* another of the same name and one of another name
FeatureObjs == {"demoFeature", "calcomFeature", "customFeature", "customFeature2",
                "otherFeature"}

\* feature.getInfo().name
NameOf(f) ==
  CASE f = "demoFeature" -> "Demo"
    [] f = "calcomFeature" -> "Cal.com"
    [] f = "otherFeature" -> "Other"
    [] OTHER -> "Custom"

\* what canLoad() of a feature object can do: Demo always loads, Cal.com loads
\* when the token is set, a feature of the Feature interface may also throw
CanLoadChoices(f) ==
  CASE f = "demoFeature" -> {"yes"}
    [] f = "calcomFeature" -> {"yes", "no"}
    [] OTHER -> {"yes", "no", "throws"}

\* a Cal.com register() that lets its configuration error out
RegisterChoices_calcomThrows(f) ==
  CASE f = "demoFeature" ->
         { [throws |-> FALSE, isError |-> FALSE, success |-> TRUE, error |-> Absent, hasInfo |-> TRUE],
           [throws |-> FALSE, isError |-> FALSE, success |-> FALSE, error |-> "demo failed", hasInfo |-> TRUE] }
    [] f = "calcomFeature" ->
         { [throws |-> FALSE, isError |-> FALSE, success |-> TRUE, error |-> Absent, hasInfo |-> FALSE],
           [throws |-> TRUE, isError |-> TRUE, success |-> FALSE,
            error |-> "Cal.com feature configuration error", hasInfo |-> FALSE] }
    [] OTHER ->
         { [throws |-> FALSE, isError |-> FALSE, success |-> TRUE, error |-> Absent, hasInfo |-> TRUE],
           [throws |-> FALSE, isError |-> FALSE, success |-> FALSE, error |-> "custom failed", hasInfo |-> FALSE],
           [throws |-> TRUE, isError |-> TRUE, success |-> FALSE, error |-> "boom", hasInfo |-> FALSE],
           [throws |-> TRUE, isError |-> FALSE, success |-> FALSE, error |-> Absent, hasInfo |-> FALSE] }

\* what one register(server) invocation can end with: a returned result
\* (Demo's carry info, Cal.com's do not; both catch their own errors), or,
\* for a feature of the Feature interface, a thrown Error or non-Error value
RegisterChoices(f) ==
  CASE f = "demoFeature" ->
         { [throws |-> FALSE, isError |-> FALSE, success |-> TRUE, error |-> Absent, hasInfo |-> TRUE],
           [throws |-> FALSE, isError |-> FALSE, success |-> FALSE, error |-> "demo failed", hasInfo |-> TRUE] }
    [] f = "calcomFeature" ->
         { [throws |-> FALSE, isError |-> FALSE, success |-> TRUE, error |-> Absent, hasInfo |-> FALSE],
           [throws |-> FALSE, isError |-> FALSE, success |-> FALSE,
            error |-> "Cal.com feature configuration error", hasInfo |-> FALSE] }
    [] OTHER ->
         { [throws |-> FALSE, isError |-> FALSE, success |-> TRUE, error |-> Absent, hasInfo |-> TRUE],
           [throws |-> FALSE, isError |-> FALSE, success |-> FALSE, error |-> "custom failed", hasInfo |-> FALSE],
           [throws |-> TRUE, isError |-> TRUE, success |-> FALSE, error |-> "boom", hasInfo |-> FALSE],
           [throws |-> TRUE, isError |-> FALSE, success |-> FALSE, error |-> Absent, hasInfo |-> FALSE] }

\* tasks: 0 is the start-up task, the others are inbound requests
Requests == 1..MaxRequests
Tasks == 0..MaxRequests

\* a set that adds an entry whatever the map holds
MapSet_appends(m, k, v) == Append(m, [key |-> k, value |-> v])

\* a set that keeps the entry a key already has
MapSet_keepsFirst(m, k, v) ==
  IF \E i \in 1..Len(m) : m[i].key = k
  THEN m
  ELSE Append(m, [key |-> k, value |-> v])

\* Map.prototype.set on an insertion-ordered map kept as a sequence of entries
MapSet(m, k, v) ==
  IF \E i \in 1..Len(m) : m[i].key = k
  THEN [i \in 1..Len(m) |-> IF m[i].key = k THEN [key |-> k, value |-> v] ELSE m[i]]
  ELSE Append(m, [key |-> k, value |-> v])

MapHas(m, k) == \E i \in 1..Len(m) : m[i].key = k

MapGet(m, k) == m[CHOOSE i \in 1..Len(m) : m[i].key = k].value

MapKeys(m) == { m[i].key : i \in 1..Len(m) }

\* the result built when canLoad() is false; id stands for the object's identity
SkippedResult(t, f) ==
  [success |-> FALSE,
   error |-> "Feature " \o NameOf(f) \o " cannot be loaded (missing configuration or dependencies)",
   info |-> NameOf(f), id |-> <<t, f>>]

\* the result built by the catch block of registerAllFeatures
CaughtResult(t, f, isError, message) ==
  [success |-> FALSE,
   error |-> IF isError THEN message ELSE "Unknown error",
   info |-> NameOf(f), id |-> <<t, f>>]

\* the result object a register() call returned
ReturnedResult(t, f, b) ==
  [success |-> b.success, error |-> b.error,
   info |-> IF b.hasInfo THEN NameOf(f) ELSE Absent, id |-> <<t, f>>]

\* results.push(result): beside the result an entry notes the loop variable
\* (of) and the branch of the loop body that pushed it (via)
Pushed(res, f, via, r) == Append(res, [of |-> f, via |-> via, result |-> r])

\* the for-loop with the skip branch continuing before it records anything
RECURSIVE LoopFrom_dropsSkipped(_, _, _, _, _)
LoopFrom_dropsSkipped(feats, t, i, res, reg) ==
  IF i > Len(feats)
  THEN [idx |-> i, results |-> res, registered |-> reg, awaiting |-> FALSE]
  ELSE LET f == feats[i].value IN
       CASE canLoadOf[f] = "no" ->
              LoopFrom_dropsSkipped(feats, t, i + 1, res, reg)
         [] canLoadOf[f] = "throws" ->
              LoopFrom_dropsSkipped(feats, t, i + 1,
                       Pushed(res, f, "canLoadThrew", CaughtResult(t, f, TRUE, "canLoad failed")),
                       MapSet(reg, NameOf(f), CaughtResult(t, f, TRUE, "canLoad failed")))
         [] OTHER ->
              [idx |-> i, results |-> res, registered |-> reg, awaiting |-> TRUE]

\* the for-loop without the canLoad() check: every feature is registered
LoopFrom_ignoresCanLoad(feats, t, i, res, reg) ==
  IF i > Len(feats)
  THEN [idx |-> i, results |-> res, registered |-> reg, awaiting |-> FALSE]
  ELSE [idx |-> i, results |-> res, registered |-> reg, awaiting |-> TRUE]

\* the for-loop of registerAllFeatures over the map feats from position i up
\* to its next await (a feature whose canLoad() is true) or to the end
RECURSIVE LoopFrom(_, _, _, _, _)
LoopFrom(feats, t, i, res, reg) ==
  IF i > Len(feats)
  THEN [idx |-> i, results |-> res, registered |-> reg, awaiting |-> FALSE]
  ELSE LET f == feats[i].value IN
       CASE canLoadOf[f] = "no" ->
              LoopFrom(feats, t, i + 1, Pushed(res, f, "skipped", SkippedResult(t, f)),
                       MapSet(reg, NameOf(f), SkippedResult(t, f)))
         [] canLoadOf[f] = "throws" ->
              LoopFrom(feats, t, i + 1,
                       Pushed(res, f, "canLoadThrew", CaughtResult(t, f, TRUE, "canLoad failed")),
                       MapSet(reg, NameOf(f), CaughtResult(t, f, TRUE, "canLoad failed")))
         [] OTHER ->
              [idx |-> i, results |-> res, registered |-> reg, awaiting |-> TRUE]

\* the state a loop segment seg leaves behind for task t: when it stopped at
\* an await, register() was invoked on the feature at seg.idx and t waits at
\* pc `waiting`; otherwise registerAllFeatures returned and t goes to `next`;
\* lists holds the results lists of the calls still referenced
AfterSegment(feats, t, seg, lists, waiting, next) ==
  /\ idx' = [idx EXCEPT ![t] = seg.idx]
  /\ results' = [lists EXCEPT ![t] = seg.results]
  /\ registeredFeatures' = seg.registered
  /\ IF seg.awaiting
     THEN /\ registerCalls' = [registerCalls EXCEPT ![feats[seg.idx].value] = @ + 1]
          /\ awaited' = [awaited EXCEPT ![t] = feats[seg.idx].value]
          /\ tpc' = [tpc EXCEPT ![t] = waiting]
     ELSE /\ registerCalls' = registerCalls
          /\ awaited' = [awaited EXCEPT ![t] = Absent]
          /\ tpc' = [tpc EXCEPT ![t] = next]

\* the loop body without its try/catch: an error thrown by register()
\* leaves registerAllFeatures, which rejects
ResumeLoop_rethrows(t, b, waiting, next) ==
  LET f == awaited[t]
      r == ReturnedResult(t, f, b)
  IN IF b.throws
     THEN /\ tpc' = [tpc EXCEPT ![t] = "threw"]
          /\ awaited' = [awaited EXCEPT ![t] = Absent]
          /\ UNCHANGED <<idx, results, registeredFeatures, registerCalls>>
     ELSE AfterSegment(features, t,
                       LoopFrom(features, t, idx[t] + 1,
                                Pushed(results[t], f, "returned", r),
                                MapSet(registeredFeatures, NameOf(f), r)),
                       results, waiting, next)

\* the awaited register() of task t settles with behaviour b: the result
\* (returned, or built by the catch block) is pushed and stored under the
\* name of the feature the loop holds, and the loop goes on
ResumeLoop(t, b, waiting, next) ==
  LET f == awaited[t]
      r == IF b.throws THEN CaughtResult(t, f, b.isError, b.error)
           ELSE ReturnedResult(t, f, b)
  IN AfterSegment(features, t,
                  LoopFrom(features, t, idx[t] + 1,
                           Pushed(results[t], f, IF b.throws THEN "threw" ELSE "returned", r),
                           MapSet(registeredFeatures, NameOf(f), r)),
                  results, waiting, next)

\* getSuccessfullyRegisteredFeatures / getFailedFeatureRegistrations on map m
Successful(m) == SelectSeq(m, LAMBDA e : e.value.success)

\* a failed partition that leaves the skipped features out
Failed_withoutSkipped(m) ==
  SelectSeq(m, LAMBDA e :
    /\ ~e.value.success
    /\ e.value.error #
         "Feature " \o e.key \o " cannot be loaded (missing configuration or dependencies)")

Failed(m) == SelectSeq(m, LAMBDA e : ~e.value.success)

\* addFeature(feature)
addFeature(f) ==
  /\ features' = MapSet(features, NameOf(f), f)
  /\ UNCHANGED <<mode, canLoadOf, registeredFeatures, tpc, idx, results, awaited,
                 summary, registerCalls>>
  /\ UNCHANGED <<clientVars, serviceVars, abandoned, singletonVars, upkeepVars>>

\* registerAllFeatures(server) is called (as task t) and runs to its first
\* await or, when no feature can load, to its return; the caller awaits one
\* call before it makes the next and keeps only the list of its latest call
registerAllFeatures(t) ==
  /\ tpc[t] = "idle"
  /\ \A u \in Requests : u < t => tpc[u] = "returned"
  /\ AfterSegment(features, t, LoopFrom(features, t, 1, <<>>, registeredFeatures),
                  [u \in Tasks |-> <<>>], "registering", "returned")
  /\ UNCHANGED <<mode, canLoadOf, features, summary>>
  /\ UNCHANGED <<clientVars, serviceVars, abandoned, singletonVars, upkeepVars>>

\* a register() awaited by registerAllFeatures settles
registerSettles(t) ==
  /\ tpc[t] = "registering"
  /\ \E b \in RegisterChoices(awaited[t]) : ResumeLoop(t, b, "registering", "returned")
  /\ UNCHANGED <<mode, canLoadOf, features, summary>>
  /\ UNCHANGED <<clientVars, serviceVars, abandoned, singletonVars, upkeepVars>>

\* what cleanup of a feature object can be: the shipped features define
\* none; a feature of the Feature interface (cleanup?(): Promise<void> | void)
\* may define one that completes, one whose promise rejects, or one that
\* throws before it returns
CleanupChoices(f) ==
  CASE f \in {"demoFeature", "calcomFeature"} -> {"none"}
    [] OTHER -> {"none", "ok", "rejects", "throws"}

\* Array.from(this.features.values()).filter(feature => feature.cleanup)
WithCleanup(feats) == SelectSeq(feats, LAMBDA e : cleanupOf[e.value] # "none")

\* .map(feature => feature.cleanup!()) from position i on: the features
\* invoked and what their calls returned, in order; a cleanup() that throws
\* ends the map, and the call of FeatureRegistry.cleanup() with it
RECURSIVE MapCleanup(_, _, _, _)
MapCleanup(fs, i, invoked, promises) ==
  IF i > Len(fs)
  THEN [invoked |-> invoked, promises |-> promises, threw |-> FALSE]
  ELSE LET f == fs[i].value IN
         IF cleanupOf[f] = "throws"
         THEN [invoked |-> Append(invoked, f), promises |-> promises, threw |-> TRUE]
         ELSE MapCleanup(fs, i + 1, Append(invoked, f), Append(promises, cleanupOf[f]))

\* FeatureRegistry.cleanup() is called and runs to its await of Promise.all,
\* or rejects when a cleanup() threw
cleanup ==
  /\ cleanupPc = "idle"
  /\ LET m == MapCleanup(WithCleanup(features), 1, <<>>, <<>>) IN
       /\ cleanupCalls' = [f \in FeatureObjs |->
                             IF \E i \in 1..Len(m.invoked) : m.invoked[i] = f
                             THEN cleanupCalls[f] + 1 ELSE cleanupCalls[f]]
       /\ cleanupPromises' = m.promises
       /\ cleanupPc' = IF m.threw THEN "rejected" ELSE "awaiting"
  /\ UNCHANGED <<mode, canLoadOf, features, registeredFeatures, tpc, idx, results,
                 awaited, summary, registerCalls, cleanupOf, handle>>
  /\ UNCHANGED <<clientVars, serviceVars, abandoned, singletonVars>>

\* the Promise.all awaited by cleanup() settles: it rejects when one of the
\* promises does, else cleanup() clears registeredFeatures and returns
cleanupSettles ==
  /\ cleanupPc = "awaiting"
  /\ IF \E i \in 1..Len(cleanupPromises) : cleanupPromises[i] = "rejects"
     THEN /\ cleanupPc' = "rejected"
          /\ UNCHANGED registeredFeatures
     ELSE /\ cleanupPc' = "done"
          /\ registeredFeatures' = <<>>
  /\ UNCHANGED <<mode, canLoadOf, features, tpc, idx, results, awaited, summary,
                 registerCalls, cleanupOf, cleanupCalls, cleanupPromises, handle>>
  /\ UNCHANGED <<clientVars, serviceVars, abandoned, singletonVars>>

\* a getRegistrationResults() that hands out the registry's own map
getRegistrationResults_sameMap(reg) == [taken |-> TRUE, own |-> FALSE, entries |-> reg]

\* getRegistrationResults(): new Map(this.registeredFeatures), a map with
\* the same entries and storage of its own
getRegistrationResults(reg) == [taken |-> TRUE, own |-> TRUE, entries |-> reg]

\* Map.prototype.delete
MapDelete(m, k) == SelectSeq(m, LAMBDA e : e.key # k)

\* a result the caller makes up
InjectedResult == [success |-> TRUE, error |-> Absent, info |-> "Injected",
                   id |-> <<0, "otherFeature">>]

\* what the caller can do to a map: set an entry of a new name, overwrite or
\* delete an entry it holds, clear it
Written(m) ==
  {MapSet(m, "Injected", InjectedResult), <<>>}
    \cup { MapDelete(m, m[i].key) : i \in 1..Len(m) }
    \cup { MapSet(m, m[i].key, InjectedResult) : i \in 1..Len(m) }

\* a caller asks the registry for its results
callerGets ==
  /\ ~handle.taken
  /\ handle' = getRegistrationResults(registeredFeatures)
  /\ UNCHANGED <<mode, canLoadOf, features, registeredFeatures, tpc, idx, results,
                 awaited, summary, registerCalls, cleanupOf, cleanupCalls, cleanupPc,
                 cleanupPromises>>
  /\ UNCHANGED <<clientVars, serviceVars, abandoned, singletonVars>>

\* the caller writes to the map it got: the write reaches the storage of
\* that map, which is the registry's only if the map is the registry's own
callerWrites ==
  /\ handle.taken
  /\ \E new \in Written(handle.entries) :
       /\ handle' = [handle EXCEPT !.entries = new]
       /\ registeredFeatures' = IF handle.own THEN registeredFeatures ELSE new
  /\ UNCHANGED <<mode, canLoadOf, features, tpc, idx, results, awaited, summary,
                 registerCalls, cleanupOf, cleanupCalls, cleanupPc, cleanupPromises>>
  /\ UNCHANGED <<clientVars, serviceVars, abandoned, singletonVars>>

\* ------------------------------------------------------------------------
\* The server (server.ts, features/index.ts)
\* ------------------------------------------------------------------------

\* the feature objects initializeFeatures() adds
Shipped == {"demoFeature", "calcomFeature"}

\* initializeFeatures(): the map after its two addFeature calls
initializeFeatures(feats) ==
  MapSet(MapSet(feats, NameOf("demoFeature"), "demoFeature"),
         NameOf("calcomFeature"), "calcomFeature")

\* createMcpServer() up to its first await: initializeFeatures(), then
\* registerAllFeatures(server) to its first await or its return
createMcpServer(t) ==
  LET feats == initializeFeatures(features) IN
    /\ features' = feats
    /\ AfterSegment(feats, t, LoopFrom(feats, t, 1, <<>>, registeredFeatures),
                    results, "creating", "summarizing")

\* no continuation of a settled promise is pending: the register() of the
\* shipped features awaits nothing, so createMcpServer runs through in
\* microtasks before the event loop dispatches another request or I/O event
NoPendingMicrotask == \A u \in Tasks : tpc[u] \notin {"creating", "summarizing"}

\* startServer(mode): STDIO creates the one server now; HTTP installs the
\* handlers and listens
startServer ==
  /\ tpc[0] = "boot"
  /\ IF mode = "stdio"
     THEN createMcpServer(0)
     ELSE /\ tpc' = [tpc EXCEPT ![0] = "listening"]
          /\ UNCHANGED <<features, registeredFeatures, idx, results, awaited, registerCalls>>
  /\ UNCHANGED <<mode, canLoadOf, summary>>
  /\ UNCHANGED <<clientVars, serviceVars, abandoned, singletonVars, upkeepVars>>

\* a register() awaited inside createMcpServer settles
createSettles(t) ==
  /\ tpc[t] = "creating"
  /\ \E b \in RegisterChoices(awaited[t]) : ResumeLoop(t, b, "creating", "summarizing")
  /\ UNCHANGED <<mode, canLoadOf, features, summary>>
  /\ UNCHANGED <<clientVars, serviceVars, abandoned, singletonVars, upkeepVars>>

\* a createMcpServer that returns a server only when some feature loaded
createReturns_needsCapability(t) ==
  /\ tpc[t] = "summarizing"
  /\ Len(Successful(registeredFeatures)) > 0
  /\ summary' = [summary EXCEPT ![t] =
                   [successful |-> Len(Successful(registeredFeatures)),
                    failed |-> Len(Failed(registeredFeatures))]]
  /\ tpc' = [tpc EXCEPT ![t] = IF t = 0 THEN "listening" ELSE "serving"]
  /\ UNCHANGED <<mode, canLoadOf, features, registeredFeatures, idx, results, awaited,
                 registerCalls>>
  /\ UNCHANGED <<clientVars, serviceVars, abandoned, singletonVars, upkeepVars>>

\* createMcpServer after registerAllFeatures: it reads both partitions for
\* the log summary and returns the server, which is connected to its
\* transport (STDIO start-up) or handed the request (HTTP handler)
createReturns(t) ==
  /\ tpc[t] = "summarizing"
  /\ summary' = [summary EXCEPT ![t] =
                   [successful |-> Len(Successful(registeredFeatures)),
                    failed |-> Len(Failed(registeredFeatures))]]
  /\ tpc' = [tpc EXCEPT ![t] = IF t = 0 THEN "listening" ELSE "serving"]
  /\ UNCHANGED <<mode, canLoadOf, features, registeredFeatures, idx, results, awaited,
                 registerCalls>>
  /\ UNCHANGED <<clientVars, serviceVars, abandoned, singletonVars, upkeepVars>>

\* an inbound request r: over HTTP the /mcp handler creates a server for it,
\* over STDIO the connected server takes it
requestArrives(r) ==
  /\ tpc[0] = "listening"
  /\ tpc[r] = "waiting"
  /\ \A u \in Requests : u < r => tpc[u] # "waiting"
  /\ NoPendingMicrotask
  /\ IF mode = "http"
     THEN createMcpServer(r)
     ELSE /\ tpc' = [tpc EXCEPT ![r] = "serving"]
          /\ UNCHANGED <<features, registeredFeatures, idx, results, awaited, registerCalls>>
  /\ UNCHANGED <<mode, canLoadOf, summary>>
  /\ UNCHANGED <<clientVars, serviceVars, abandoned, singletonVars, upkeepVars>>

\* the transport finishes handling request r
requestCompletes(r) ==
  /\ tpc[r] = "serving"
  /\ NoPendingMicrotask
  /\ tpc' = [tpc EXCEPT ![r] = "done"]
  /\ UNCHANGED <<mode, canLoadOf, features, registeredFeatures, idx, results, awaited,
                 summary, registerCalls>>
  /\ UNCHANGED <<clientVars, serviceVars, abandoned, singletonVars, upkeepVars>>

\* ------------------------------------------------------------------------
\* Event types and selection options (calcom.client.ts)
\* ------------------------------------------------------------------------

\* upstream-assigned event type ids
TypeIds == {1, 2, 3}

\* titles are sequences of characters
Chars == {"A", "B", "a", "b"}
Titles == {<<"a">>, <<"B">>, <<"A", "b">>}

\* the event types upstream may hold: id, title and hidden are the fields
\* filter, sort and find read
EventTypes == [id : TypeIds, title : Titles, hidden : BOOLEAN]

\* response.data.event_types: lists of at most MaxTypes event types, ids unique
EventTypeLists ==
  UNION { { l \in [1..n -> EventTypes] :
              \A i, j \in 1..n : i # j => l[i].id # l[j].id } : n \in 0..MaxTypes }

\* no event type (undefined)
NoType == [id |-> 0, title |-> <<>>, hidden |-> FALSE]

\* UTF-16 code unit of a character
CodeUnit == [c \in Chars |->
               CASE c = "A" -> 65 [] c = "B" -> 66 [] c = "a" -> 97 [] c = "b" -> 98]

\* collation weights of a character under the ICU root collation: the letter
\* first (primary), then its case, lower before upper (tertiary)
PrimaryWeight == [c \in Chars |-> IF c \in {"A", "a"} THEN 1 ELSE 2]
TertiaryWeight == [c \in Chars |-> IF c \in {"a", "b"} THEN 0 ELSE 1]

Weights(w, s) == [i \in 1..Len(s) |-> w[s[i]]]

\* lexicographic comparison of two sequences of numbers: -1, 0 or 1
RECURSIVE CompareSeq(_, _)
CompareSeq(u, v) ==
  IF u = <<>> /\ v = <<>> THEN 0
  ELSE IF u = <<>> THEN -1
  ELSE IF v = <<>> THEN 1
  ELSE IF Head(u) < Head(v) THEN -1
  ELSE IF Head(u) > Head(v) THEN 1
  ELSE CompareSeq(Tail(u), Tail(v))

\* the < and <= of JavaScript on strings: by code units
CodeUnitCompare(s, t) == CompareSeq(Weights(CodeUnit, s), Weights(CodeUnit, t))

\* the collations String.prototype.localeCompare may apply
Collations == {"icu", "codeUnits"}

\* s.localeCompare(t) in the default locale: the ICU collation when the
\* runtime is built with Intl, a code unit comparison when it is not
localeCompare(coll, s, t) ==
  IF coll = "icu"
  THEN LET p == CompareSeq(Weights(PrimaryWeight, s), Weights(PrimaryWeight, t))
       IN IF p # 0 THEN p
          ELSE CompareSeq(Weights(TertiaryWeight, s), Weights(TertiaryWeight, t))
  ELSE CodeUnitCompare(s, t)

\* the filter that lets every event type through
visible_keepsHidden(types) == types

\* .filter(eventType => !eventType.hidden)
visible(types) == SelectSeq(types, LAMBDA et : ~et.hidden)

\* the projection with the position in the list in place of the id
toOptions_positionAsId(types) ==
  [i \in 1..Len(types) |-> [id |-> i, title |-> types[i].title]]

\* .map(eventType => ({id, title, ...})): description, duration and
\* requiresConfirmation are derived from the same record and are not read
\* by the sort
toOptions(types) ==
  [i \in 1..Len(types) |-> [id |-> types[i].id, title |-> types[i].title]]

\* x placed into a sorted list after every entry that does not follow it
RECURSIVE InsertByTitle(_, _, _)
InsertByTitle(sorted, x, coll) ==
  IF sorted = <<>> THEN <<x>>
  ELSE IF localeCompare(coll, Head(sorted).title, x.title) <= 0
  THEN <<Head(sorted)>> \o InsertByTitle(Tail(sorted), x, coll)
  ELSE <<x>> \o sorted

\* the sort left out
sortByTitle_unsorted(opts, coll) == opts

\* .sort((a, b) => a.title.localeCompare(b.title)): Array.prototype.sort is
\* stable, so the result is the one of a stable insertion
RECURSIVE sortByTitle(_, _)
sortByTitle(opts, coll) ==
  IF opts = <<>> THEN <<>>
  ELSE InsertByTitle(sortByTitle(SubSeq(opts, 1, Len(opts) - 1), coll),
                     opts[Len(opts)], coll)

\* what getEventTypeOptions returns for the fetched eventTypes
EventTypeOptions(types, coll) == sortByTitle(toOptions(visible(types)), coll)

\* find that falls back to the first event type of the list
find_orFirst(types, id) ==
  IF \E i \in 1..Len(types) : types[i].id = id
  THEN types[CHOOSE i \in 1..Len(types) :
               /\ types[i].id = id
               /\ \A j \in 1..(i - 1) : types[j].id # id]
  ELSE IF types # <<>> THEN types[1] ELSE NoType

\* allEventTypes.find(et => et.id === eventTypeId)
find(types, id) ==
  IF \E i \in 1..Len(types) : types[i].id = id
  THEN types[CHOOSE i \in 1..Len(types) :
               /\ types[i].id = id
               /\ \A j \in 1..(i - 1) : types[j].id # id]
  ELSE NoType

\* ------------------------------------------------------------------------
\* The service (calcom.service.ts, calcom.types.ts) and the tool handlers
\* (calcom.feature.ts)
\* ------------------------------------------------------------------------

\* JavaScript values a caller may pass in an input field
Undef == [t |-> "undefined", n |-> 0, s |-> ""]
Num(n) == [t |-> "number", n |-> n, s |-> ""]
Str(s) == [t |-> "string", n |-> 0, s |-> s]

\* the truthiness of a value
Truthy(v) == (v.t = "number" /\ v.n # 0) \/ (v.t = "string" /\ v.s # "")

\* strings z.string().datetime() accepts: ISO 8601 date-times in UTC
IsoDatetimes == {"2024-01-01T00:00:00Z", "2024-01-07T23:59:59Z"}

\* z.string().datetime()
IsDatetime(v) == v.t = "string" /\ v.s \in IsoDatetimes

\* z.string().optional() and z.string().default('UTC').optional(): the
\* outer optional() lets undefined through as undefined
IsOptionalString(v) == v.t \in {"undefined", "string"}

\* z.number() and z.number().optional()
IsNumber(v) == v.t = "number"
IsOptionalNumber(v) == v.t \in {"undefined", "number"}

\* what callers pass in the fields of an input object
Starts == {Str("2024-01-01T00:00:00Z"), Str("2024-01-01")}
Ends == {Str("2024-01-07T23:59:59Z"), Undef}
Usernames == {Undef, Str(""), Str("alice")}
Slugs == {Undef, Str(""), Str("intro")}
TypeIdInputs == {Undef, Num(0), Num(1), Num(99999), Str("1")}
TimeZones == {Undef, Str(""), Str("Europe/Warsaw"), Num(60)}

Inputs == [start : Starts, end : Ends, username : Usernames, eventTypeSlug : Slugs,
           eventTypeId : TypeIdInputs, timeZone : TimeZones]

\* inputs of the shape of GetEventTypeSlotsInput: no username, no slug
TypeSlotsInputs ==
  { in \in Inputs : in.username = Undef /\ in.eventTypeSlug = Undef }

NoInput == [start |-> Undef, end |-> Undef, username |-> Undef, eventTypeSlug |-> Undef,
            eventTypeId |-> Undef, timeZone |-> Undef]

\* GetSlotsInputSchema.parse(input) succeeds
GetSlotsInputSchema(in) ==
  /\ IsDatetime(in.start)
  /\ IsDatetime(in.end)
  /\ IsOptionalString(in.username)
  /\ IsOptionalString(in.eventTypeSlug)
  /\ IsOptionalNumber(in.eventTypeId)
  /\ IsOptionalString(in.timeZone)

\* a schema that accepts any start
GetEventTypeSlotsInputSchema_anyStart(in) ==
  /\ IsNumber(in.eventTypeId)
  /\ IsDatetime(in.end)
  /\ IsOptionalString(in.timeZone)

\* GetEventTypeSlotsInputSchema.parse(input) succeeds
GetEventTypeSlotsInputSchema(in) ==
  /\ IsNumber(in.eventTypeId)
  /\ IsDatetime(in.start)
  /\ IsDatetime(in.end)
  /\ IsOptionalString(in.timeZone)

\* the default that keeps an empty string
OrUTC_absentOnly(v) == IF v.t = "undefined" THEN Str("UTC") ELSE v

\* validatedInput.timeZone || 'UTC'
OrUTC(v) == IF Truthy(v) THEN v ELSE Str("UTC")

\* errors a service operation can fail with
ErrorClasses == {"Error", "ZodError", "TypeError", "CalcomClientError"}

NoError == [name |-> "none", message |-> Absent, hasStatus |-> FALSE, statusCode |-> 0,
            code |-> Absent]

\* the ZodError of a failed parse; its message lists the issues
ZodError == [name |-> "ZodError", message |-> "<issues>", hasStatus |-> FALSE,
             statusCode |-> 0, code |-> Absent]

\* the Error thrown at the end of getAvailableSlots
NeitherError ==
  [name |-> "Error",
   message |-> "Either username/eventTypeSlug or eventTypeId must be provided",
   hasStatus |-> FALSE, statusCode |-> 0, code |-> Absent]

\* the TypeError of calling a method on response.data.event_types when the
\* body has no such field
NoListError(method) ==
  [name |-> "TypeError",
   message |-> "Cannot read properties of undefined (reading '" \o method \o "')",
   hasStatus |-> FALSE, statusCode |-> 0, code |-> Absent]

\* the CalcomClientError thrown when the id is not in the list
NotFoundError(id) ==
  [name |-> "CalcomClientError",
   message |-> "Event type with ID " \o ToString(id) \o " not found",
   hasStatus |-> FALSE, statusCode |-> 0, code |-> Absent]

\* the CalcomClientError makeRequest threw, as the caller sees it
ClientError(r) ==
  [name |-> "CalcomClientError", message |-> r.message, hasStatus |-> r.hasStatus,
   statusCode |-> r.statusCode, code |-> r.code]

\* request configs handed to makeRequest
NoConfig == [url |-> "", params |-> NoInput]

\* getEventTypes(): GET /v1/event-types
EventTypesConfig == [url |-> "/v1/event-types", params |-> NoInput]

\* getSlotsByUsername(params): GET /v2/slots
SlotsByUsernameConfig(p) ==
  [url |-> "/v2/slots",
   params |-> [NoInput EXCEPT !.username = p.username, !.eventTypeSlug = p.eventTypeSlug,
                              !.start = p.start, !.end = p.end, !.timeZone = p.timeZone]]

\* getSlotsByEventTypeId(params): GET /v2/slots
SlotsByEventTypeIdConfig(p) ==
  [url |-> "/v2/slots",
   params |-> [NoInput EXCEPT !.eventTypeId = p.eventTypeId,
                              !.start = p.start, !.end = p.end, !.timeZone = p.timeZone]]

\* who calls a service operation: a caller holding the service, the
\* GET_AVAILABLE_SLOTS handler, or its variant with username and slug
Callers == {"direct", "tool", "legacyTool"}

\* the input object a caller builds from what it was given: the
\* GET_AVAILABLE_SLOTS handler passes start, end, eventTypeId and timeZone
InputFrom(via, in) ==
  IF via = "tool"
  THEN [in EXCEPT !.username = Undef, !.eventTypeSlug = Undef]
  ELSE in

\* the routing with the id asked about first
Route_idFirst(in) ==
  IF Truthy(in.eventTypeId) THEN "eventTypeId"
  ELSE IF Truthy(in.username) /\ Truthy(in.eventTypeSlug) THEN "username"
  ELSE "neither"

\* the routing without its final else
Route_noElse(in) ==
  IF Truthy(in.username) /\ Truthy(in.eventTypeSlug) THEN "username"
  ELSE "eventTypeId"

\* the if / else if / else of getAvailableSlots
Route(in) ==
  IF Truthy(in.username) /\ Truthy(in.eventTypeSlug) THEN "username"
  ELSE IF Truthy(in.eventTypeId) THEN "eventTypeId"
  ELSE "neither"

\* the 2xx response carries a body with an event_types list: not a 204 and
\* not an application-level error payload
HasEventTypes(r) == r.statusCode # 204 /\ r.message = Absent /\ r.code = Absent

\* getErrorMessage(error)
getErrorMessage(e) == IF e.name \in ErrorClasses THEN e.message ELSE "Unknown error"

NoResponse == [kind |-> "none", isError |-> FALSE, code |-> Absent, message |-> Absent]

\* a handler without its try / catch
Respond_rethrows(via, pc, e) ==
  IF pc = "threw"
  THEN [kind |-> "threw", isError |-> FALSE, code |-> Absent, message |-> Absent]
  ELSE [kind |-> "response", isError |-> FALSE, code |-> Absent,
        message |-> IF via = "tool" THEN "Available meeting slots" ELSE Absent]

\* what a GET_AVAILABLE_SLOTS handler returns once the service call settled
Respond(via, pc, e) ==
  IF pc = "threw"
  THEN [kind |-> "response", isError |-> TRUE,
        code |-> IF via = "tool" THEN "AVAILABLE_SLOTS_ERROR" ELSE "SLOTS_ERROR",
        message |-> getErrorMessage(e)]
  ELSE [kind |-> "response", isError |-> FALSE, code |-> Absent,
        message |-> IF via = "tool" THEN "Available meeting slots" ELSE Absent]

\* whether some event type of the list has the id
Held(types, id) ==
  IF \E i \in 1..Len(types) : types[i].id = id THEN "present" ELSE "absent"

NoService == [op |-> "none", via |-> "direct", input |-> NoInput]

\* a makeRequest chain has settled towards its caller: the frames of call c
\* are gone, and the calls in `starts` are handed to makeRequest
Settled(c, starts) ==
  /\ cpc' = [x \in Calls |-> IF x \in starts THEN "ready"
                             ELSE IF x = c THEN "off" ELSE cpc[x]]
  /\ attempt' = [attempt EXCEPT ![c] = 0]
  /\ reqLog' = [reqLog EXCEPT ![c] = <<>>]
  /\ delays' = [delays EXCEPT ![c] = <<>>]
  /\ caught' = [caught EXCEPT ![c] = NoOutcome]
  /\ result' = [result EXCEPT ![c] = NoResult]
  /\ UNCHANGED <<retryConfig, issued>>

\* a getCalcomClient() that constructs a client at every call
getCalcomClient_always(cur) == cur + 1

\* CalcomService.getCalcomClient(): the field's instance, constructed (and
\* numbered as the next one) when the field is null
getCalcomClient(cur) == IF cur = 0 THEN cur + 1 ELSE cur

\* CalcomService.getEventTypeOptions(): get the client; its
\* getEventTypeOptions calls getEventTypes, which hands its config to
\* makeRequest
getEventTypeOptions ==
  /\ svcPc = "idle"
  /\ svcIn' = [op |-> "getEventTypeOptions", via |-> "direct", input |-> NoInput]
  /\ operations' = operations + 1
  /\ calcomClient' = getCalcomClient(calcomClient)
  /\ client' = calcomClient'
  /\ config' = [config EXCEPT !["c1"] = EventTypesConfig]
  /\ cpc' = [cpc EXCEPT !["c1"] = "ready"]
  /\ svcPc' = "listing"
  /\ UNCHANGED <<args, eventTypes, lookup, eventType, options, collation, thrown, response>>
  /\ UNCHANGED <<retryConfig, attempt, reqLog, issued, delays, caught, result>>
  /\ UNCHANGED <<registryVars, abandoned, upkeepVars>>

\* CalcomService.getSlotsForEventType(input): parse, default the time zone,
\* get the client and call its getSlotsForEventType, which starts with
\* getEventTypes
getSlotsForEventType(in) ==
  /\ svcPc = "idle"
  /\ svcIn' = [op |-> "getSlotsForEventType", via |-> "direct", input |-> in]
  /\ operations' = operations + 1
  /\ IF GetEventTypeSlotsInputSchema(in)
     THEN /\ args' = [NoInput EXCEPT !.eventTypeId = in.eventTypeId, !.start = in.start,
                                     !.end = in.end, !.timeZone = OrUTC(in.timeZone)]
          /\ calcomClient' = getCalcomClient(calcomClient)
          /\ client' = calcomClient'
          /\ config' = [config EXCEPT !["c1"] = EventTypesConfig]
          /\ cpc' = [cpc EXCEPT !["c1"] = "ready"]
          /\ svcPc' = "listing"
          /\ UNCHANGED thrown
     ELSE /\ thrown' = ZodError
          /\ svcPc' = "threw"
          /\ UNCHANGED <<args, config, cpc, calcomClient, client>>
  /\ UNCHANGED <<eventTypes, lookup, eventType, options, collation, response>>
  /\ UNCHANGED <<retryConfig, attempt, reqLog, issued, delays, caught, result>>
  /\ UNCHANGED <<registryVars, abandoned, upkeepVars>>

\* CalcomService.getAvailableSlots(input), called by `via` with the input it
\* builds: parse, default the time zone, get the client, then one of the
\* client's two slot methods or the Error of the final else
getAvailableSlots(via, given) ==
  LET in == InputFrom(via, given) IN
    /\ svcPc = "idle"
    /\ given = in
    /\ svcIn' = [op |-> "getAvailableSlots", via |-> via, input |-> in]
    /\ operations' = operations + 1
    /\ IF ~GetSlotsInputSchema(in)
       THEN /\ thrown' = ZodError
            /\ svcPc' = "threw"
            /\ UNCHANGED <<args, config, cpc, calcomClient, client>>
       ELSE LET p == [in EXCEPT !.timeZone = OrUTC(in.timeZone)]
                cfg == IF Route(in) = "username" THEN SlotsByUsernameConfig(p)
                       ELSE SlotsByEventTypeIdConfig(p)
            IN /\ calcomClient' = getCalcomClient(calcomClient)
               /\ client' = calcomClient'
               /\ IF Route(in) = "neither"
                  THEN /\ thrown' = NeitherError
                       /\ svcPc' = "threw"
                       /\ UNCHANGED <<args, config, cpc>>
                  ELSE /\ args' = cfg.params
                       /\ config' = [config EXCEPT !["c2"] = cfg]
                       /\ cpc' = [cpc EXCEPT !["c2"] = "ready"]
                       /\ svcPc' = "slots"
                       /\ UNCHANGED thrown
    /\ UNCHANGED <<eventTypes, lookup, eventType, options, collation, response>>
    /\ UNCHANGED <<retryConfig, attempt, reqLog, issued, delays, caught, result>>
    /\ UNCHANGED <<registryVars, abandoned, upkeepVars>>

\* getEventTypes() returns response.data.event_types to the client method
\* awaiting it: getEventTypeOptions filters, maps and sorts the list;
\* getSlotsForEventType looks the id up and throws or goes on to
\* getSlotsByEventTypeId (allEventTypes is not read again once the type is
\* found)
getEventTypesReturns ==
  /\ svcPc = "listing"
  /\ cpc["c1"] = "returned"
  /\ IF ~HasEventTypes(result["c1"])
     THEN /\ thrown' = NoListError(IF svcIn.op = "getEventTypeOptions" THEN "filter" ELSE "find")
          /\ svcPc' = "threw"
          /\ Settled("c1", {})
          /\ UNCHANGED <<config, eventTypes, lookup, eventType, options, collation>>
     ELSE \E types \in EventTypeLists :
            IF svcIn.op = "getEventTypeOptions"
            THEN \E coll \in Collations :
                   /\ eventTypes' = types
                   /\ collation' = coll
                   /\ options' = EventTypeOptions(types, coll)
                   /\ svcPc' = "returned"
                   /\ Settled("c1", {})
                   /\ UNCHANGED <<config, lookup, eventType, thrown>>
            ELSE LET et == find(types, args.eventTypeId.n) IN
                   IF et = NoType
                   THEN /\ eventTypes' = types
                        /\ lookup' = Held(types, args.eventTypeId.n)
                        /\ thrown' = NotFoundError(args.eventTypeId.n)
                        /\ svcPc' = "threw"
                        /\ Settled("c1", {})
                        /\ UNCHANGED <<config, eventType, options, collation>>
                   ELSE /\ eventType' = et
                        /\ lookup' = Held(types, args.eventTypeId.n)
                        /\ config' = [config EXCEPT !["c2"] = SlotsByEventTypeIdConfig(args)]
                        /\ svcPc' = "slots"
                        /\ Settled("c1", {"c2"})
                        /\ UNCHANGED <<eventTypes, options, collation, thrown>>
  /\ UNCHANGED <<svcIn, args, response>>
  /\ UNCHANGED <<registryVars, abandoned, singletonVars, upkeepVars>>

\* a getSlotsForEventType that asks for the slots although the list failed
getEventTypesThrows_stillAsksSlots ==
  /\ svcPc = "listing"
  /\ cpc["c1"] = "threw"
  /\ config' = [config EXCEPT !["c2"] = SlotsByEventTypeIdConfig(args)]
  /\ svcPc' = "slots"
  /\ Settled("c1", {"c2"})
  /\ UNCHANGED <<svcIn, args, eventTypes, lookup, eventType, options, collation,
                 thrown, response>>
  /\ UNCHANGED <<registryVars, abandoned, singletonVars, upkeepVars>>

\* getEventTypes() rejects with the CalcomClientError of makeRequest, and so
\* does the operation awaiting it
getEventTypesThrows ==
  /\ svcPc = "listing"
  /\ cpc["c1"] = "threw"
  /\ thrown' = ClientError(result["c1"])
  /\ svcPc' = "threw"
  /\ Settled("c1", {})
  /\ UNCHANGED <<svcIn, args, config, eventTypes, lookup, eventType, options, collation,
                 response>>
  /\ UNCHANGED <<registryVars, abandoned, singletonVars, upkeepVars>>

\* the slots method returns response.data and the operation returns it
\* (getSlotsForEventType together with the event type found)
getSlotsReturns ==
  /\ svcPc = "slots"
  /\ cpc["c2"] = "returned"
  /\ svcPc' = "returned"
  /\ Settled("c2", {})
  /\ UNCHANGED <<svcIn, args, config, eventTypes, lookup, eventType, options, collation,
                 thrown, response>>
  /\ UNCHANGED <<registryVars, abandoned, singletonVars, upkeepVars>>

\* the slots method rejects with the CalcomClientError of makeRequest, and
\* so does the operation awaiting it
getSlotsThrows ==
  /\ svcPc = "slots"
  /\ cpc["c2"] = "threw"
  /\ thrown' = ClientError(result["c2"])
  /\ svcPc' = "threw"
  /\ Settled("c2", {})
  /\ UNCHANGED <<svcIn, args, config, eventTypes, lookup, eventType, options, collation,
                 response>>
  /\ UNCHANGED <<registryVars, abandoned, singletonVars, upkeepVars>>

\* the handler's await of the service call settles: it returns the slots or
\* the error response of its catch block
handlerReturns ==
  /\ svcIn.via \in {"tool", "legacyTool"}
  /\ svcPc \in {"returned", "threw"}
  /\ response' = Respond(svcIn.via, svcPc, thrown)
  /\ svcPc' = IF response'.kind = "threw" THEN "handlerThrew" ELSE "responded"
  /\ UNCHANGED <<svcIn, args, config, eventTypes, lookup, eventType, options, collation,
                 thrown>>
  /\ UNCHANGED <<clientVars, registryVars, abandoned, singletonVars, upkeepVars>>

\* the operation has ended towards its caller, who calls the service again:
\* the locals of the ended operation are gone, the service keeps its field
\* (the count of requests starts anew with the operation)
nextOperation ==
  /\ operations < MaxOperations
  /\ \/ svcIn.via = "direct" /\ svcPc \in {"returned", "threw"}
     \/ svcIn.via # "direct" /\ svcPc \in {"responded", "handlerThrew"}
  /\ svcPc' = "idle"
  /\ svcIn' = NoService
  /\ args' = NoInput
  /\ config' = [c \in Calls |-> NoConfig]
  /\ eventTypes' = <<>>
  /\ lookup' = "none"
  /\ eventType' = NoType
  /\ options' = <<>>
  /\ collation' = "none"
  /\ thrown' = NoError
  /\ response' = NoResponse
  /\ client' = 0
  /\ issued' = [c \in Calls |-> 0]
  /\ UNCHANGED <<retryConfig, cpc, attempt, reqLog, delays, caught, result>>
  /\ UNCHANGED <<calcomClient, operations, registryVars, abandoned, upkeepVars>>

\* ------------------------------------------------------------------------
\* Specifications
\* ------------------------------------------------------------------------

NoSummary == [successful |-> 0, failed |-> 0]

\* a registry just constructed, tasks at pc p, no client call under way
\* the map no caller has asked for yet
NoHandle == [taken |-> FALSE, own |-> FALSE, entries |-> <<>>]

FreshRegistry(p) ==
  /\ features = <<>>
  /\ registeredFeatures = <<>>
  /\ tpc = [t \in Tasks |-> p[t]]
  /\ idx = [t \in Tasks |-> 0]
  /\ results = [t \in Tasks |-> <<>>]
  /\ awaited = [t \in Tasks |-> Absent]
  /\ summary = [t \in Tasks |-> NoSummary]
  /\ registerCalls = [f \in FeatureObjs |-> 0]
  /\ cleanupCalls = [f \in FeatureObjs |-> 0]
  /\ cleanupPc = "idle"
  /\ cleanupPromises = <<>>
  /\ handle = NoHandle

\* no feature object defines cleanup() (none of the shipped features does)
NoCleanups == cleanupOf = [f \in FeatureObjs |-> "none"]

CanLoadConfigs == { c \in [FeatureObjs -> {"yes", "no", "throws"}] :
                      \A f \in FeatureObjs : c[f] \in CanLoadChoices(f) }

\* a client constructed with the default retryConfig and not in use
IdleClient ==
  /\ retryConfig = [maxRetries |-> 3, baseDelay |-> 1000, maxDelay |-> 10000]
  /\ cpc = [c \in Calls |-> "off"]
  /\ attempt = [c \in Calls |-> 0]
  /\ reqLog = [c \in Calls |-> <<>>]
  /\ issued = [c \in Calls |-> 0]
  /\ delays = [c \in Calls |-> <<>>]
  /\ caught = [c \in Calls |-> NoOutcome]
  /\ result = [c \in Calls |-> NoResult]
  /\ abandoned = [c \in Calls |-> FALSE]

\* a service no operation was called on
IdleService ==
  /\ svcPc = "idle"
  /\ svcIn = NoService
  /\ args = NoInput
  /\ config = [c \in Calls |-> NoConfig]
  /\ eventTypes = <<>>
  /\ lookup = "none"
  /\ eventType = NoType
  /\ options = <<>>
  /\ collation = "none"
  /\ thrown = NoError
  /\ response = NoResponse
  /\ calcomClient = 0
  /\ client = 0
  /\ operations = 0

\* the process: started in one of the two modes, registry empty
Init ==
  /\ mode \in {"stdio", "http"}
  /\ canLoadOf \in { c \in CanLoadConfigs :
                       \A f \in FeatureObjs \ Shipped : c[f] = "yes" }
  /\ FreshRegistry([t \in Tasks |-> IF t = 0 THEN "boot" ELSE "waiting"])
  /\ IdleClient
  /\ IdleService
  /\ NoCleanups

Next ==
  \/ startServer
  \/ \E t \in Tasks : createSettles(t)
  \/ \E t \in Tasks : createReturns(t)
  \/ \E r \in Requests : requestArrives(r)
  \/ \E r \in Requests : requestCompletes(r)

Spec == Init /\ [][Next]_vars

\* the process under the scheduling of the event loop: start-up runs, the
\* register() of a shipped feature awaits nothing and settles, and the
\* continuations of settled promises run
SpecLive ==
  /\ Init
  /\ [][Next]_vars
  /\ WF_vars(startServer)
  /\ \A t \in Tasks : WF_vars(createSettles(t)) /\ WF_vars(createReturns(t))

\* the features the registry is given when its registration is looked at
Given == Shipped \cup {"customFeature", "customFeature2"}

\* the registry on its own: features are added and registerAllFeatures is
\* called, in any order
InitRegistry ==
  /\ mode = "stdio"
  /\ canLoadOf \in { c \in CanLoadConfigs : \A f \in FeatureObjs \ Given : c[f] = "yes" }
  /\ FreshRegistry([t \in Tasks |-> IF t = 0 THEN "unused" ELSE "idle"])
  /\ IdleClient
  /\ IdleService
  /\ NoCleanups

NextRegistry ==
  \/ \E f \in Given : addFeature(f)
  \/ \E t \in Requests : registerAllFeatures(t)
  \/ \E t \in Requests : registerSettles(t)

SpecRegistry == InitRegistry /\ [][NextRegistry]_vars

\* the features a registry to be cleaned up is given
Kept == {"customFeature", "otherFeature"}

CleanupConfigs == { c \in [FeatureObjs -> {"none", "ok", "rejects", "throws"}] :
                      \A f \in FeatureObjs :
                        /\ c[f] \in CleanupChoices(f)
                        /\ f \notin Kept => c[f] = "none" }

\* a registry that is given features, registers them and is cleaned up once,
\* at any moment
InitCleanup ==
  /\ mode = "stdio"
  /\ canLoadOf \in { c \in CanLoadConfigs : \A f \in FeatureObjs \ Kept : c[f] = "yes" }
  /\ cleanupOf \in CleanupConfigs
  /\ FreshRegistry([t \in Tasks |-> IF t = 0 THEN "unused" ELSE "idle"])
  /\ IdleClient
  /\ IdleService

NextCleanup ==
  \/ \E f \in Kept : addFeature(f)
  \/ \E t \in Requests : registerAllFeatures(t)
  \/ \E t \in Requests : registerSettles(t)
  \/ cleanup
  \/ cleanupSettles

SpecCleanup == InitCleanup /\ [][NextCleanup]_vars

\* the features of a registry whose results a caller asks for
Asked == {"demoFeature", "customFeature"}

\* a registry that is given features and registers them, and a caller that
\* asks for its results once and writes to the map it got
InitSnapshot ==
  /\ mode = "stdio"
  /\ canLoadOf \in { c \in CanLoadConfigs : \A f \in FeatureObjs \ Asked : c[f] = "yes" }
  /\ NoCleanups
  /\ FreshRegistry([t \in Tasks |-> IF t = 0 THEN "unused" ELSE "idle"])
  /\ IdleClient
  /\ IdleService

NextSnapshot ==
  \/ \E f \in Asked : addFeature(f)
  \/ \E t \in Requests : registerAllFeatures(t)
  \/ \E t \in Requests : registerSettles(t)
  \/ callerGets
  \/ callerWrites

SpecSnapshot == InitSnapshot /\ [][NextSnapshot]_vars

\* one client, constructed with some retryConfig, serving one logical call
InitClient ==
  /\ retryConfig \in RetryConfigs
  /\ cpc = [c \in Calls |-> IF c = "c1" THEN "ready" ELSE "off"]
  /\ attempt = [c \in Calls |-> 0]
  /\ reqLog = [c \in Calls |-> <<>>]
  /\ issued = [c \in Calls |-> 0]
  /\ delays = [c \in Calls |-> <<>>]
  /\ caught = [c \in Calls |-> NoOutcome]
  /\ result = [c \in Calls |-> NoResult]
  /\ abandoned = [c \in Calls |-> FALSE]
  /\ mode = "stdio"
  /\ canLoadOf = [f \in FeatureObjs |-> "yes"]
  /\ FreshRegistry([t \in Tasks |-> "unused"])
  /\ IdleService
  /\ NoCleanups

NextClient ==
  \E c \in Calls :
    \/ StartCall(c)
    \/ RequestResolves(c)
    \/ RequestFails(c)
    \/ RequestRetries(c)
    \/ Wake(c)

SpecClient == InitClient /\ [][NextClient]_vars

\* the single call under the scheduling of the event loop: a request handed
\* to axios completes (the instance has a 30 s timeout) and a timer fires
SpecClientLive ==
  /\ InitClient
  /\ [][NextClient]_vars
  /\ \A c \in Calls :
       /\ WF_vars(StartCall(c))
       /\ WF_vars(RequestResolves(c) \/ RequestFails(c) \/ RequestRetries(c))
       /\ WF_vars(Wake(c))

\* retryConfig of the client whose calls run side by side: one retry, its
\* delay under the cap
ConcurrentConfigs ==
  { cfg \in RetryConfigs :
      cfg.maxRetries = 2 /\ cfg.baseDelay = 100 /\ cfg.maxDelay = 150 }

\* one client serving two logical calls at once, either of which its caller
\* may abandon
InitConcurrent ==
  /\ retryConfig \in ConcurrentConfigs
  /\ cpc = [c \in Calls |-> "ready"]
  /\ attempt = [c \in Calls |-> 0]
  /\ reqLog = [c \in Calls |-> <<>>]
  /\ issued = [c \in Calls |-> 0]
  /\ delays = [c \in Calls |-> <<>>]
  /\ caught = [c \in Calls |-> NoOutcome]
  /\ result = [c \in Calls |-> NoResult]
  /\ abandoned = [c \in Calls |-> FALSE]
  /\ mode = "stdio"
  /\ canLoadOf = [f \in FeatureObjs |-> "yes"]
  /\ FreshRegistry([t \in Tasks |-> "unused"])
  /\ IdleService
  /\ NoCleanups

NextConcurrent ==
  \E c \in Calls :
    \/ StartCall(c)
    \/ RequestResolves(c)
    \/ RequestFails(c)
    \/ RequestRetries(c)
    \/ Wake(c)
    \/ Abandon(c)

SpecConcurrent == InitConcurrent /\ [][NextConcurrent]_vars

\* the exported calcomService: its client is the one it constructs with the
\* default retryConfig; one operation is called on it, by a caller holding
\* the service or by a tool handler, and runs to its end
InitService ==
  /\ mode = "stdio"
  /\ canLoadOf = [f \in FeatureObjs |-> "yes"]
  /\ FreshRegistry([t \in Tasks |-> "unused"])
  /\ IdleClient
  /\ IdleService
  /\ NoCleanups

NextService ==
  \/ getEventTypeOptions
  \/ svcPc = "idle" /\ \E in \in TypeSlotsInputs : getSlotsForEventType(in)
  \/ svcPc = "idle" /\ \E via \in Callers : \E in \in Inputs : getAvailableSlots(via, in)
  \/ getEventTypesReturns
  \/ getEventTypesThrows
  \/ getSlotsReturns
  \/ getSlotsThrows
  \/ handlerReturns
  \/ \E c \in Calls : StartCall(c)
  \/ \E c \in Calls : RequestResolves(c)
  \/ \E c \in Calls : RequestFails(c)
  \/ \E c \in Calls : RequestRetries(c)
  \/ \E c \in Calls : Wake(c)

SpecService == InitService /\ [][NextService]_vars

\* the exported calcomService used over and over: each operation runs to its
\* end before the next is called
NextSingleton ==
  \/ getEventTypeOptions
  \/ svcPc = "idle" /\ \E in \in TypeSlotsInputs : getSlotsForEventType(in)
  \/ svcPc = "idle" /\ \E via \in Callers : \E in \in Inputs : getAvailableSlots(via, in)
  \/ getEventTypesReturns
  \/ getEventTypesThrows
  \/ getSlotsReturns
  \/ getSlotsThrows
  \/ handlerReturns
  \/ nextOperation
  \/ \E c \in Calls : StartCall(c)
  \/ \E c \in Calls : RequestResolves(c)
  \/ \E c \in Calls : RequestFails(c)
  \/ \E c \in Calls : RequestRetries(c)
  \/ \E c \in Calls : Wake(c)

SpecSingleton == InitService /\ [][NextSingleton]_vars

\* ------------------------------------------------------------------------
\* Properties of the retrying client
\* ------------------------------------------------------------------------

Is4xx(e) == e.resp /\ e.status >= 400 /\ e.status < 500

\* a log entry of an attempt that failed retryably: a 5xx response or no response
IsRetryable(e) == ~e.resp \/ (e.status >= 500 /\ e.status < 600)

\* the i-th attempt of call c is the last thing the call did: it failed there
EndsAt(c, i) ==
  /\ Len(reqLog[c]) = i
  /\ issued[c] = i
  /\ Len(delays[c]) = i - 1
  /\ cpc[c] = "threw"

\* C1: an attempt that fails with a status in [400,500) is the last one: no
\* further request, no backoff sleep, the call fails at once; a 4xx on the
\* first attempt means exactly one attempt.
C1_No4xxRetry ==
  \A c \in Calls : \A i \in 1..Len(reqLog[c]) :
    Is4xx(reqLog[c][i]) => EndsAt(c, i) /\ result[c].kind = "error"

\* a first attempt answered 4xx under a policy that leaves attempts to spare
C1_Witness ==
  /\ retryConfig.maxRetries >= 2
  /\ Len(reqLog["c1"]) = 1
  /\ Is4xx(reqLog["c1"][1])
  /\ cpc["c1"] = "threw"

AllRetryable(c) == \A i \in 1..Len(reqLog[c]) : IsRetryable(reqLog[c][i])

\* the statuses of the responses received during the call, in order
RECURSIVE ResponseStatuses(_)
ResponseStatuses(log) ==
  IF log = <<>> THEN <<>>
  ELSE LET rest == ResponseStatuses(SubSeq(log, 1, Len(log) - 1))
           e == log[Len(log)]
       IN IF e.resp THEN Append(rest, e.status) ELSE rest

\* never more than maxRetries requests, and no failure before maxRetries
\* attempts while every attempt failed retryably
AttemptsBounded(c) ==
  /\ issued[c] <= retryConfig.maxRetries
  /\ (cpc[c] = "threw" /\ AllRetryable(c)) => Len(reqLog[c]) = retryConfig.maxRetries

\* the call gave up after maxRetries retryable failures
Exhausted(c) ==
  /\ cpc[c] = "threw"
  /\ AllRetryable(c)
  /\ Len(reqLog[c]) = retryConfig.maxRetries

\* C2 as claimed: retryable failures are attempted up to maxRetries times and
\* never more, and the error after the last attempt carries the status of the
\* last response received during the call.
C2_LastObservedStatus ==
  \A c \in Calls :
    /\ AttemptsBounded(c)
    /\ Exhausted(c) =>
         /\ result[c].kind = "error"
         /\ LET seen == ResponseStatuses(reqLog[c])
            IN seen # <<>> =>
                 result[c].hasStatus /\ result[c].statusCode = seen[Len(seen)]

\* C2 as amended: retryable failures are attempted up to maxRetries times and
\* never more, and the error after the last attempt carries the status of the
\* final attempt's response, and no status when the final attempt got no response.
C2_FinalAttemptStatus ==
  \A c \in Calls :
    /\ AttemptsBounded(c)
    /\ Exhausted(c) =>
         /\ result[c].kind = "error"
         /\ LET last == reqLog[c][Len(reqLog[c])]
            IN /\ result[c].hasStatus = last.resp
               /\ last.resp => result[c].statusCode = last.status

\* a call exhausted by a 5xx followed by failures without response
C2_Witness ==
  /\ retryConfig.maxRetries >= 2
  /\ Exhausted("c1")
  /\ reqLog["c1"][1].resp
  /\ ~reqLog["c1"][Len(reqLog["c1"])].resp

\* C3 as claimed: the delay slept immediately before attempt n (2 <= n <=
\* maxRetries) is min(baseDelay * 2^(n-1), maxDelay).
C3_DelayBeforeAttempt ==
  \A c \in Calls : \A n \in 2..issued[c] :
    delays[c][n - 1] = Min(retryConfig.baseDelay * 2^(n - 1), retryConfig.maxDelay)

\* C3 as amended: the delay slept immediately before attempt n (2 <= n <=
\* maxRetries) is min(baseDelay * 2^(n-2), maxDelay).
C3_DelayBeforeAttemptAmended ==
  \A c \in Calls :
    /\ Len(delays[c]) = (IF issued[c] = 0 THEN 0 ELSE issued[c] - 1)
         + (IF cpc[c] = "sleeping" THEN 1 ELSE 0)
    /\ \A n \in 2..issued[c] :
         delays[c][n - 1] = Min(retryConfig.baseDelay * 2^(n - 2), retryConfig.maxDelay)

\* a third attempt was issued under a policy whose cap is not reached
C3_Witness ==
  /\ issued["c1"] = 3
  /\ retryConfig.baseDelay * 2 < retryConfig.maxDelay

ScenarioPolicy == [maxRetries |-> 3, baseDelay |-> 100, maxDelay |-> 1000]

\* C4: the delay slept after the n-th failed retryable attempt (n < maxRetries)
\* is min(baseDelay * 2^(n-1), maxDelay); under {3, 100, 1000} with upstream
\* answering 503, 503, 200 the call succeeds on the third attempt after exactly
\* three requests and delays of 100 then 200.
C4_DelayAfterFailure ==
  \A c \in Calls :
    /\ \A n \in 1..Len(delays[c]) :
         /\ n < retryConfig.maxRetries
         /\ IsRetryable(reqLog[c][n])
         /\ delays[c][n] = Min(retryConfig.baseDelay * 2^(n - 1), retryConfig.maxDelay)
    /\ (retryConfig = ScenarioPolicy /\ ResponseStatuses(reqLog[c]) = <<503, 503, 200>>
          /\ Len(reqLog[c]) = 3)
         => /\ cpc[c] = "returned"
            /\ result[c].kind = "response"
            /\ issued[c] = 3
            /\ delays[c] = <<100, 200>>

\* the scenario: 503, 503, 200 under {3, 100, 1000}
C4_Witness ==
  /\ retryConfig = ScenarioPolicy
  /\ ResponseStatuses(reqLog["c1"]) = <<503, 503, 200>>
  /\ Len(reqLog["c1"]) = 3
  /\ cpc["c1"] = "returned"

\* the call failed on a response / without any response
FailedOnResponse(c) == cpc[c] = "threw" /\ caught[c].resp
FailedWithoutResponse(c) == cpc[c] = "threw" /\ ~caught[c].resp

IsNetworkMessage(m) == m = "Network error: Unable to reach Cal.com API"

\* C5 as claimed: a call failing on a non-2xx response throws an error whose
\* statusCode is the response's status and whose message and code are the
\* payload's error.message and error.code when present (message 'HTTP <status>
\* error' otherwise); failing with no response, the error has no statusCode
\* and a network-error message.
C5_ErrorFromPayload ==
  \A c \in Calls :
    /\ FailedOnResponse(c) =>
         /\ result[c].hasStatus /\ result[c].statusCode = caught[c].status
         /\ result[c].message =
              (IF caught[c].message # Absent THEN caught[c].message
               ELSE "HTTP " \o ToString(caught[c].status) \o " error")
         /\ caught[c].code # Absent => result[c].code = caught[c].code
    /\ FailedWithoutResponse(c) =>
         ~result[c].hasStatus /\ IsNetworkMessage(result[c].message)

Present(v) == v # Absent /\ v # ""

\* C5 as amended: message and code are the payload's when present and not
\* empty, 'HTTP <status> error' and 'HTTP_ERROR' otherwise; failing with no
\* response, the error has no statusCode and no code, and its message is the
\* network-error message when the request was sent and a request-error
\* message when it could not be set up. A 400 with {BAD_REQUEST, 'Invalid
\* parameters'} fails after one attempt with message 'Invalid parameters'.
C5_ErrorFromPayloadAmended ==
  \A c \in Calls :
    /\ FailedOnResponse(c) =>
         /\ result[c].kind = "error"
         /\ result[c].hasStatus /\ result[c].statusCode = caught[c].status
         /\ caught[c].status = reqLog[c][Len(reqLog[c])].status
         /\ result[c].message =
              (IF Present(caught[c].message) THEN caught[c].message
               ELSE "HTTP " \o ToString(caught[c].status) \o " error")
         /\ result[c].code =
              (IF Present(caught[c].code) THEN caught[c].code ELSE "HTTP_ERROR")
    /\ FailedWithoutResponse(c) =>
         /\ result[c].kind = "error"
         /\ ~result[c].hasStatus
         /\ result[c].code = Absent
         /\ IsNetworkMessage(result[c].message) = caught[c].req
         /\ ~caught[c].req => result[c].message = "Request error: <message>"
    /\ (Len(reqLog[c]) = 1 /\ FailedOnResponse(c) /\ caught[c].status = 400
          /\ caught[c].message = "Invalid parameters" /\ caught[c].code = "BAD_REQUEST")
         => issued[c] = 1 /\ result[c].message = "Invalid parameters"
              /\ result[c].code = "BAD_REQUEST"

\* the 400 / BAD_REQUEST / 'Invalid parameters' scenario
C5_Witness ==
  /\ FailedOnResponse("c1")
  /\ issued["c1"] = 1
  /\ caught["c1"].status = 400
  /\ caught["c1"].message = "Invalid parameters"
  /\ caught["c1"].code = "BAD_REQUEST"
  /\ retryConfig.maxRetries >= 2

\* ------------------------------------------------------------------------
\* Properties of the registry
\* ------------------------------------------------------------------------

StandardSkipMessage(n) ==
  "Feature " \o n \o " cannot be loaded (missing configuration or dependencies)"

\* task t's call of registerAllFeatures returns in this step
Returns(t) == tpc[t] # "returned" /\ tpc'[t] = "returned"

\* entry e of a results list is a failure built from a thrown error
IsCaughtFailure(e) ==
  /\ ~e.result.success
  /\ e.result.error \in {"boom", "Unknown error", "canLoad failed"}
  /\ e.result.info = NameOf(e.of)

\* C6: registerAllFeatures never aborts because of one feature: an error
\* thrown by register() is caught and becomes a failure result of that
\* feature only, the call does not reject, and the features after it are
\* still processed; with three features of which the second throws, three
\* results come back and exactly one is the failure made from the throw.
C6_ThrowContained ==
  /\ [](\A t \in Requests :
         /\ tpc[t] # "threw"
         /\ \A i \in 1..Len(results[t]) :
              results[t][i].via = "threw" =>
                /\ IsCaughtFailure(results[t][i])
                /\ \A j \in 1..Len(results[t]) :
                     (j # i /\ results[t][j].via \in {"returned", "skipped"}) =>
                       ~IsCaughtFailure(results[t][j]))
  /\ [][\A t \in Requests :
          /\ (tpc[t] = "registering" /\ tpc'[t] # "registering") => Returns(t)
          /\ Returns(t) =>
               /\ Len(results'[t]) = Len(features')
               /\ \A i \in 1..Len(features') :
                    /\ NameOf(results'[t][i].of) = features'[i].key
                    /\ (results'[t][i].via = "threw" /\ i < Len(features')
                          /\ canLoadOf[results'[t][i + 1].of] = "yes")
                         => results'[t][i + 1].via \in {"returned", "threw"}
               /\ (Len(features') = 3 /\ results'[t][2].via = "threw"
                     /\ results'[t][1].via # "threw" /\ results'[t][3].via # "threw")
                    => Cardinality({i \in 1..3 : IsCaughtFailure(results'[t][i])
                                       /\ results'[t][i].via = "threw"}) = 1]_vars

\* three features, the second threw inside register(), the third registered
C6_Witness ==
  \E t \in Requests :
    /\ tpc[t] = "returned"
    /\ Len(features) = 3
    /\ Len(results[t]) = 3
    /\ results[t][2].via = "threw"
    /\ results[t][3].via = "returned"
    /\ results[t][3].result.success

\* C7: canLoad() is consulted before register(); a feature whose canLoad()
\* is false is never registered and gets a result with success = false, the
\* standard 'missing configuration or dependencies' message and its info.
C7_SkippedNeverRegistered ==
  /\ \A f \in FeatureObjs :
       registerCalls[f] > 0 => canLoadOf[f] = "yes"
  /\ \A t \in Requests : \A i \in 1..Len(results[t]) :
       LET e == results[t][i] IN
         /\ e.via = "skipped" <=> canLoadOf[e.of] = "no"
         /\ canLoadOf[e.of] = "no" =>
              /\ e.result.success = FALSE
              /\ e.result.error = StandardSkipMessage(NameOf(e.of))
              /\ e.result.info = NameOf(e.of)
              /\ MapHas(registeredFeatures, NameOf(e.of))
  /\ \A i \in 1..Len(registeredFeatures) :
       LET r == registeredFeatures[i].value IN
         canLoadOf[r.id[2]] = "no" =>
           ~r.success /\ r.error = StandardSkipMessage(registeredFeatures[i].key)

\* a call returned having skipped one feature and registered another
C7_Witness ==
  \E t \in Requests : \E i, j \in 1..Len(results[t]) :
    /\ tpc[t] = "returned"
    /\ results[t][i].via = "skipped"
    /\ registerCalls[results[t][i].of] = 0
    /\ results[t][j].via = "returned"
    /\ i < j

\* C8: registerAllFeatures goes through the features in insertion order and
\* returns exactly one result per added feature, the i-th result being that
\* of the i-th feature, whatever each feature does.
C8_OneResultEachInOrder ==
  /\ [](\A t \in Requests :
         /\ Len(results[t]) <= Len(features)
         /\ \A i \in 1..Len(results[t]) : NameOf(results[t][i].of) = features[i].key
         /\ tpc[t] = "registering" => idx[t] = Len(results[t]) + 1)
  /\ [][\A t \in Requests :
          Returns(t) =>
            /\ Len(results'[t]) = Len(features')
            /\ \A i \in 1..Len(features') :
                 NameOf(results'[t][i].of) = features'[i].key]_vars

\* a call returned three results, one skipped, one thrown, one returned,
\* for features that were not added in the order of their names
C8_Witness ==
  \E t \in Requests :
    /\ tpc[t] = "returned"
    /\ Len(results[t]) = 3
    /\ features[1].key = "Demo"
    /\ features[2].key = "Custom"
    /\ {results[t][i].via : i \in 1..3} = {"skipped", "threw", "returned"}

\* ------------------------------------------------------------------------
\* Properties of the server
\* ------------------------------------------------------------------------

\* C9: a feature ends in Skipped or Registered(success | failure) and stays
\* there: within one process register() is invoked at most once per feature
\* and its result, once stored, is never replaced, however many requests
\* the server handles.
C9_RegisteredOnce ==
  [][/\ \A f \in FeatureObjs : registerCalls'[f] <= 1
     /\ \A n \in MapKeys(registeredFeatures) :
          /\ MapHas(registeredFeatures', n)
          /\ MapGet(registeredFeatures', n) = MapGet(registeredFeatures, n)]_vars

\* C10: the feature map and the result map are written at start-up only:
\* once a request is being served or has been served neither map is
\* written again, so requests only ever read them.
C10_MapsFrozenAfterStartup ==
  [][(\E r \in Requests : tpc[r] \in {"serving", "done"})
       => (features' = features /\ registeredFeatures' = registeredFeatures)]_vars

\* ------------------------------------------------------------------------
\* Properties of the selection options and of the lookup by id
\* ------------------------------------------------------------------------

\* getEventTypeOptions returned `options` for the fetched `eventTypes`
Listed == svcIn.op = "getEventTypeOptions" /\ svcPc = "returned"

\* C11: whatever list upstream returned, no option comes from an event type
\* with hidden = true and every event type with hidden = false has its option.
C11_HiddenFilteredOut ==
  Listed =>
    /\ \A i \in 1..Len(options) :
         ~\E j \in 1..Len(eventTypes) :
            eventTypes[j].id = options[i].id /\ eventTypes[j].hidden
    /\ \A j \in 1..Len(eventTypes) :
         ~eventTypes[j].hidden =>
           \E i \in 1..Len(options) : options[i].id = eventTypes[j].id

\* a list with a hidden event type ahead of a visible one was turned into options
C11_Witness ==
  /\ Listed
  /\ Len(eventTypes) = 2
  /\ eventTypes[1].hidden
  /\ ~eventTypes[2].hidden
  /\ Len(options) = 1

Reordered(l) ==
  { [i \in 1..Len(l) |-> l[p[i]]] : p \in Permutations(1..Len(l)) }

\* C13: the options returned do not depend on the order in which upstream
\* lists the event types: every reordering of the fetched list yields the
\* same sequence of options, duplicate titles included.
C13_OrderIndependent ==
  Listed => \A l \in Reordered(eventTypes) : EventTypeOptions(l, collation) = options

\* the visible event types of the fetched list that option o has the id and
\* the title of
SourcesOf(o) ==
  { j \in 1..Len(eventTypes) :
      /\ ~eventTypes[j].hidden
      /\ eventTypes[j].id = o.id
      /\ eventTypes[j].title = o.title }

\* getSlotsForEventType went past its lookup with an event type
Found ==
  /\ svcIn.op = "getSlotsForEventType"
  /\ svcPc \in {"slots", "returned"}

\* C14: every option has the id and the title of exactly one visible event
\* type of the fetched list, and the event type getSlotsForEventType goes on
\* with and returns is one the list held under the id asked for: its id is
\* that id, whatever its title.
C14_OptionIdIsSourceId ==
  /\ Listed => \A i \in 1..Len(options) : Cardinality(SourcesOf(options[i])) = 1
  /\ Found => lookup = "present" /\ eventType.id = args.eventTypeId.n

\* two event types of the same title were listed, each under its own id
C14_Witness ==
  /\ Listed
  /\ Len(options) = 2
  /\ options[1].title = options[2].title
  /\ options[1].id # options[2].id

\* the list call of getSlotsForEventType ended in a list without the id
Missed == svcIn.op = "getSlotsForEventType" /\ lookup = "absent"

\* C15: when the fetched list has no event type of the id asked for,
\* getSlotsForEventType fails with the not-found CalcomClientError, which
\* has no status code; no /v2/slots request is configured or issued, and
\* no further /v1/event-types request is issued.
C15_NotFoundStopsTheFlow ==
  /\ [](Missed =>
          /\ svcPc = "threw"
          /\ thrown = NotFoundError(args.eventTypeId.n)
          /\ ~thrown.hasStatus
          /\ \A j \in 1..Len(eventTypes) : eventTypes[j].id # args.eventTypeId.n
          /\ config["c2"] = NoConfig
          /\ issued["c2"] = 0
          /\ \A c \in Calls : cpc[c] = "off")
  /\ [][Missed => issued' = issued]_vars

\* id 99999 was looked up in a fetched list of two event types
C15_Witness ==
  /\ Missed
  /\ args.eventTypeId = Num(99999)
  /\ Len(eventTypes) = 2
  /\ svcPc = "threw"
  /\ issued["c1"] >= 1

\* ------------------------------------------------------------------------
\* Properties of the service and of the tool handlers
\* ------------------------------------------------------------------------

\* a field the caller supplied
Supplied(v) == v.t # "undefined"

\* start and end are ISO date-times and the time zone, if any, is a string
ValidRange(in) ==
  /\ in.start.t = "string" /\ in.start.s \in IsoDatetimes
  /\ in.end.t = "string" /\ in.end.s \in IsoDatetimes
  /\ in.timeZone.t \in {"undefined", "string"}

\* the input identifies no event type: no username/slug pair and no id
IdentifiesNothing(in) ==
  /\ ~(Supplied(in.username) /\ Supplied(in.eventTypeSlug))
  /\ ~Supplied(in.eventTypeId)

NoRequestIssued == \A c \in Calls : issued[c] = 0 /\ cpc[c] = "off"

PassesValidation(in) ==
  /\ ValidRange(in)
  /\ in.username.t \in {"undefined", "string"}
  /\ in.eventTypeSlug.t \in {"undefined", "string"}
  /\ in.eventTypeId.t \in {"undefined", "number"}
  /\ ~IdentifiesNothing(in)

\* both a username and a slug are given (and say something)
NamesUserAndSlug(in) ==
  /\ in.username.t = "string" /\ in.username.s # ""
  /\ in.eventTypeSlug.t = "string" /\ in.eventTypeSlug.s # ""

\* the time zone the client is to be given for the caller's
ExpectedTimeZone(v) == IF v.t = "undefined" \/ v = Str("") THEN Str("UTC") ELSE v

\* the one slots call went to getSlotsByUsername with the caller's values
SentByUser(in) ==
  /\ config["c2"].url = "/v2/slots"
  /\ config["c2"].params =
       [NoInput EXCEPT !.username = in.username, !.eventTypeSlug = in.eventTypeSlug,
                       !.start = in.start, !.end = in.end,
                       !.timeZone = ExpectedTimeZone(in.timeZone)]

\* the one slots call went to getSlotsByEventTypeId with the caller's values
SentByType(in) ==
  /\ config["c2"].url = "/v2/slots"
  /\ config["c2"].params =
       [NoInput EXCEPT !.eventTypeId = in.eventTypeId,
                       !.start = in.start, !.end = in.end,
                       !.timeZone = ExpectedTimeZone(in.timeZone)]

\* C17: for every input that passes validation getAvailableSlots makes one
\* slots call: getSlotsByUsername when a username and a slug are given,
\* getSlotsByEventTypeId when an id (any number) is given without them.
C17_EveryValidInputIsRouted ==
  (svcIn.op = "getAvailableSlots" /\ PassesValidation(svcIn.input)) =>
    /\ NamesUserAndSlug(svcIn.input) => SentByUser(svcIn.input)
    /\ (~NamesUserAndSlug(svcIn.input) /\ svcIn.input.eventTypeId.t = "number")
         => SentByType(svcIn.input)

\* C18: getSlotsForEventType and getAvailableSlots hand the client the time
\* zone 'UTC' when the caller gave none or the empty string and the
\* caller's time zone otherwise, and start, end and the id as given; the
\* /v2/slots request carries the same values.
C18_TimeZoneDefaultsToUTC ==
  (svcIn.op \in {"getSlotsForEventType", "getAvailableSlots"} /\ args # NoInput) =>
    /\ args.timeZone = ExpectedTimeZone(svcIn.input.timeZone)
    /\ args.start = svcIn.input.start
    /\ args.end = svcIn.input.end
    /\ Supplied(args.eventTypeId) => args.eventTypeId = svcIn.input.eventTypeId
    /\ svcIn.op = "getSlotsForEventType" => Supplied(args.eventTypeId)
    /\ config["c2"] # NoConfig =>
         /\ config["c2"].params.timeZone = args.timeZone
         /\ config["c2"].params.start = args.start
         /\ config["c2"].params.end = args.end
         /\ config["c2"].params.eventTypeId = args.eventTypeId

\* getSlotsForEventType, given the empty string as time zone, asked
\* /v2/slots for UTC
C18_Witness ==
  /\ svcIn.op = "getSlotsForEventType"
  /\ svcIn.input.timeZone = Str("")
  /\ config["c2"].url = "/v2/slots"
  /\ config["c2"].params.timeZone = Str("UTC")
  /\ issued["c2"] = 1

\* the kinds of error that report the caller's input
ValidationKinds == {"ZodError", "Error"}

\* the input is malformed (a field of the wrong type or form) or names no
\* event type where one is needed
Malformed(op, in) ==
  \/ ~ValidRange(in)
  \/ op = "getSlotsForEventType" /\ in.eventTypeId.t # "number"
  \/ op = "getAvailableSlots" /\
       \/ in.username.t \notin {"undefined", "string"}
       \/ in.eventTypeSlug.t \notin {"undefined", "string"}
       \/ in.eventTypeId.t \notin {"undefined", "number"}
       \/ IdentifiesNothing(in)

\* C19: a service operation given malformed or insufficient input fails with
\* an error of a validation kind before any request is issued; an error of
\* a validation kind is never raised once a request was issued, and a
\* CalcomClientError never reports the input validation.
C19_ValidationIsADistinctKind ==
  svcIn.op \in {"getSlotsForEventType", "getAvailableSlots"} =>
    /\ Malformed(svcIn.op, svcIn.input) =>
         /\ thrown.name \in ValidationKinds
         /\ NoRequestIssued
    /\ thrown.name \in ValidationKinds => NoRequestIssued
    /\ (\E c \in Calls : issued[c] > 0) /\ thrown # NoError
         => thrown.name \in {"CalcomClientError", "TypeError"}
    /\ thrown.name = "CalcomClientError" =>
         /\ ~Malformed(svcIn.op, svcIn.input)
         /\ \E c \in Calls : issued[c] > 0

\* getSlotsForEventType was refused an input whose start is a date without
\* a time
C19_Witness ==
  /\ svcIn.op = "getSlotsForEventType"
  /\ svcIn.input.start = Str("2024-01-01")
  /\ svcIn.input.eventTypeId = Num(1)
  /\ thrown.name = "ZodError"
  /\ svcPc = "threw"

\* C20: a GET_AVAILABLE_SLOTS handler never throws: whatever the service
\* call rejected with, it returns a response marked isError that carries
\* its error code and the message of the error, nothing else of the error.
C20_HandlerNeverThrows ==
  svcIn.via \in {"tool", "legacyTool"} =>
    /\ svcPc # "handlerThrew"
    /\ response.kind # "threw"
    /\ (svcPc = "responded" /\ thrown # NoError) =>
         /\ response.isError
         /\ response.code = (IF svcIn.via = "tool" THEN "AVAILABLE_SLOTS_ERROR"
                             ELSE "SLOTS_ERROR")
         /\ response.message = thrown.message
    /\ (svcPc = "responded" /\ thrown = NoError) => ~response.isError

\* a handler answered a call that the upstream had refused with a 400
C20_Witness ==
  /\ svcIn.via = "tool"
  /\ svcPc = "responded"
  /\ thrown.name = "CalcomClientError"
  /\ thrown.hasStatus
  /\ thrown.statusCode = 400
  /\ response.isError

\* ------------------------------------------------------------------------
\* Further properties of the retrying client
\* ------------------------------------------------------------------------

\* a log entry of an attempt answered with a 2xx status
Is2xx(e) == e.resp /\ e.status >= 200 /\ e.status < 300

\* C21: an attempt answered with a 2xx status ends the call with that
\* response, whatever its body: it is the last attempt, nothing is slept
\* after it and no error is built from it.
C21_2xxIsSuccess ==
  \A c \in Calls : \A i \in 1..Len(reqLog[c]) :
    Is2xx(reqLog[c][i]) =>
      /\ i = Len(reqLog[c])
      /\ issued[c] = i
      /\ Len(delays[c]) = i - 1
      /\ cpc[c] = "returned"
      /\ result[c].kind = "response"
      /\ result[c].statusCode = reqLog[c][i].status
      /\ caught[c] = NoOutcome

\* a 200 whose body is an application-level error payload was returned
C21_Witness ==
  /\ cpc["c1"] = "returned"
  /\ result["c1"].kind = "response"
  /\ result["c1"].statusCode = 200
  /\ result["c1"].message = "Invalid parameters"
  /\ result["c1"].code = "BAD_REQUEST"

\* everything the client keeps of call c
CallState(c) == <<cpc[c], attempt[c], reqLog[c], issued[c], delays[c], caught[c], result[c]>>

\* where call c stands follows from the responses it received itself
OwnCourse(c) ==
  LET n == Len(reqLog[c])
      last == reqLog[c][n]
  IN /\ issued[c] = n + (IF cpc[c] = "inflight" THEN 1 ELSE 0)
     /\ attempt[c] = issued[c]
     /\ \A i \in 1..(n - 1) : IsRetryable(reqLog[c][i]) /\ i < retryConfig.maxRetries
     /\ Len(delays[c]) = (IF cpc[c] \in {"returned", "threw"} THEN n - 1 ELSE n)
     /\ \A i \in 1..Len(delays[c]) :
          delays[c][i] = Min(retryConfig.baseDelay * 2^(i - 1), retryConfig.maxDelay)
     /\ cpc[c] \in {"ready", "inflight", "sleeping"} => result[c] = NoResult
     /\ cpc[c] = "sleeping" => IsRetryable(last) /\ n < retryConfig.maxRetries
     /\ cpc[c] = "returned" =>
          /\ Is2xx(last)
          /\ result[c].kind = "response"
          /\ result[c].statusCode = last.status
     /\ cpc[c] = "threw" =>
          /\ ~Is2xx(last)
          /\ n = retryConfig.maxRetries \/ ~IsRetryable(last)
          /\ result[c].kind = "error"
          /\ result[c].hasStatus = last.resp
          /\ last.resp => result[c].statusCode = last.status

\* C22: with two calls under way on one client, in every interleaving, the
\* attempts, delays and outcome of each call follow from its own responses
\* alone, and a step of one call changes nothing of the other.
C22_CallsAreIndependent ==
  /\ [](\A c \in Calls : OwnCourse(c))
  /\ [][\E c \in Calls : \A d \in Calls \ {c} : CallState(d)' = CallState(d)]_vars

\* one call is at its second attempt while the other, which failed on its
\* own first attempt, sleeps
C22_Witness ==
  /\ cpc["c1"] = "sleeping"
  /\ issued["c1"] = 1
  /\ cpc["c2"] = "inflight"
  /\ attempt["c2"] = 2

\* C23: once the caller has abandoned a call that was in flight or in its
\* backoff sleep, no request is issued and no sleep is started for that
\* call, and no timer of it stays pending.
C23_AbandonedCallStops ==
  [][\A c \in Calls :
       abandoned[c] =>
         /\ issued'[c] = issued[c]
         /\ delays'[c] = delays[c]
         /\ cpc'[c] # "sleeping"]_vars

\* the call has ended
Terminated(c) == cpc[c] \in {"returned", "threw"}

\* C27: every call ends, with a response or with a CalcomClientError, and
\* has then made at least one and at most maxRetries attempts.
C27_EveryCallTerminates ==
  /\ <>Terminated("c1")
  /\ [](Terminated("c1") =>
          /\ issued["c1"] >= 1
          /\ issued["c1"] <= retryConfig.maxRetries
          /\ Len(reqLog["c1"]) = issued["c1"]
          /\ result["c1"].kind = (IF cpc["c1"] = "returned" THEN "response" ELSE "error"))

\* a call ended on its third and last attempt
C27_Witness ==
  /\ Terminated("c1")
  /\ retryConfig.maxRetries = 3
  /\ issued["c1"] = 3

\* C28: a CalcomClientError exists for a call only once the call has
\* failed; it is the one handleError built from the failure of the attempt
\* the call ended on, as that attempt threw it, and it never changes.
C28_OneErrorPerFailedCall ==
  /\ [](\A c \in Calls :
          /\ cpc[c] = "threw" =>
               LET last == reqLog[c][Len(reqLog[c])] IN
                 /\ caught[c].resp = last.resp
                 /\ caught[c].status = last.status
                 /\ result[c] = handleError(caught[c])
                 /\ result[c].hasStatus = last.resp
          /\ cpc[c] # "threw" => caught[c] = NoOutcome /\ result[c].kind # "error")
  /\ [][\A c \in Calls : result[c].kind = "error" => result'[c] = result[c]]_vars

\* a call failed on a 400 at its second attempt, after a retried 503
C28_Witness ==
  /\ cpc["c1"] = "threw"
  /\ Len(reqLog["c1"]) = 2
  /\ reqLog["c1"][1].status = 503
  /\ result["c1"].hasStatus
  /\ result["c1"].statusCode = 400

\* C29: within a call requests and sleeps alternate, a request first and
\* last: k attempts go with k-1 sleeps, a sleep follows a failed request
\* only, a request follows the start or a sleep only, and an ended call
\* issues and sleeps no more.
C29_RequestsAndSleepsAlternate ==
  /\ [](\A c \in Calls :
          /\ cpc[c] \in {"inflight", "returned", "threw"} =>
               issued[c] >= 1 /\ Len(delays[c]) = issued[c] - 1
          /\ cpc[c] = "sleeping" => Len(delays[c]) = issued[c]
          /\ cpc[c] \in {"ready", "off"} => issued[c] = 0 /\ delays[c] = <<>>)
  /\ [][\A c \in Calls :
          /\ issued'[c] # issued[c] =>
               /\ cpc[c] \in {"ready", "sleeping"}
               /\ issued'[c] = issued[c] + 1
               /\ delays'[c] = delays[c]
          /\ delays'[c] # delays[c] =>
               /\ cpc[c] = "inflight"
               /\ cpc'[c] = "sleeping"
               /\ Len(delays'[c]) = Len(delays[c]) + 1
               /\ issued'[c] = issued[c]
          /\ Terminated(c) => issued'[c] = issued[c] /\ delays'[c] = delays[c]]_vars

\* a call succeeded at its third attempt, after two sleeps
C29_Witness ==
  /\ cpc["c1"] = "returned"
  /\ issued["c1"] = 3
  /\ Len(delays["c1"]) = 2

\* ------------------------------------------------------------------------
\* Further properties of the registry and of server creation
\* ------------------------------------------------------------------------

\* C24: server creation always completes: the start-up reaches the point
\* where the server is connected or listening and every createMcpServer
\* under way returns its server, whatever the features did, also when none
\* of them loaded.
C24_CreationAlwaysCompletes ==
  /\ (tpc[0] = "boot") ~> (tpc[0] = "listening")
  /\ \A t \in Tasks :
       (tpc[t] \in {"creating", "summarizing"}) ~> (tpc[t] \in {"listening", "serving"})

\* the STDIO server was created although neither feature loaded
C24_Witness ==
  /\ mode = "stdio"
  /\ tpc[0] = "listening"
  /\ Len(registeredFeatures) = 2
  /\ summary[0] = [successful |-> 0, failed |-> 2]

\* C25: every result in a results list and in the results map carries the
\* info of the feature it belongs to.
C25_ResultCarriesInfo ==
  /\ \A i \in 1..Len(registeredFeatures) :
       registeredFeatures[i].value.info = registeredFeatures[i].key
  /\ \A t \in Tasks : \A i \in 1..Len(results[t]) :
       results[t][i].result.info = NameOf(results[t][i].of)

\* no two entries of the map have the same key
UniqueKeys(m) == \A i, j \in 1..Len(m) : m[i].key = m[j].key => i = j

\* the map holds object f under its name
Holds(m, f) == MapHas(m, NameOf(f)) /\ MapGet(m, NameOf(f)) = f

\* C26: the registry holds each feature under its own name and at most one
\* per name; adding a feature puts it under its name in place of the one
\* held there and leaves the other names alone, adding it again changes
\* nothing, and register() is only ever called on the feature held.
C26_LastWriteWins ==
  /\ [](/\ UniqueKeys(features)
        /\ \A i \in 1..Len(features) : features[i].key = NameOf(features[i].value)
        /\ \A f \in FeatureObjs :
             LET after == MapSet(features, NameOf(f), f) IN
               /\ Holds(after, f)
               /\ UniqueKeys(after)
               /\ MapKeys(after) = MapKeys(features) \cup {NameOf(f)}
               /\ Holds(features, f) => after = features
        /\ initializeFeatures(initializeFeatures(features)) = initializeFeatures(features))
  /\ [][/\ features' # features =>
             \E f \in FeatureObjs :
               /\ Holds(features', f)
               /\ MapKeys(features') = MapKeys(features) \cup {NameOf(f)}
               /\ \A k \in MapKeys(features) \ {NameOf(f)} :
                    MapGet(features', k) = MapGet(features, k)
        /\ \A f \in FeatureObjs :
             registerCalls'[f] > registerCalls[f] => Holds(features, f)]_vars

\* a feature that had been registered was replaced by another of its name
C26_Witness ==
  /\ Holds(features, "customFeature2")
  /\ ~Holds(features, "customFeature")
  /\ registerCalls["customFeature"] >= 1
  /\ registerCalls["customFeature2"] = 0

\* ------------------------------------------------------------------------
\* Further properties of the lookup by id
\* ------------------------------------------------------------------------

\* the /v2/slots call of the operation was handed to makeRequest
SlotsAsked == config["c2"] # NoConfig \/ issued["c2"] > 0 \/ cpc["c2"] # "off"

\* C30: getSlotsForEventType asks for the slots only once its list call has
\* returned a list holding the id; while the list call is under way, and
\* when it failed, no slots request exists; and the event type found in
\* the list is the one kept and returned, whatever happens afterwards.
C30_ListThenSlots ==
  /\ [](svcIn.op = "getSlotsForEventType" =>
          /\ SlotsAsked =>
               /\ lookup = "present"
               /\ cpc["c1"] = "off"
               /\ issued["c1"] >= 1
               /\ eventType.id = args.eventTypeId.n
               /\ config["c2"] = SlotsByEventTypeIdConfig(args)
          /\ lookup # "present" => ~SlotsAsked /\ eventType = NoType
          /\ svcPc = "returned" => lookup = "present" /\ issued["c2"] >= 1)
  /\ [][(svcIn.op = "getSlotsForEventType" /\ eventType # NoType)
          => eventType' = eventType]_vars

\* the slots came back for an event type found after the list call had
\* been retried
C30_Witness ==
  /\ svcIn.op = "getSlotsForEventType"
  /\ svcPc = "returned"
  /\ issued["c1"] = 2
  /\ issued["c2"] >= 1
  /\ eventType.id = 1

\* ------------------------------------------------------------------------
\* Retry classification, precedence of the routing, partitions of the results
\* ------------------------------------------------------------------------

\* the i-th attempt of call c was followed by a backoff sleep
Retried(c, i) == Len(delays[c]) >= i

\* C31: a failed attempt is retried exactly when it had no response or a
\* status in [500,600) and attempts are left; a failed attempt with a
\* response of any other status (3xx, 4xx, 600) ends the call there.
C31_RetryClassification ==
  \A c \in Calls : \A i \in 1..Len(reqLog[c]) :
    LET e == reqLog[c][i] IN
      ~Is2xx(e) =>
        /\ Retried(c, i) <=> (IsRetryable(e) /\ i < retryConfig.maxRetries)
        /\ ~Retried(c, i) => EndsAt(c, i)
        /\ (e.resp /\ ~(e.status >= 500 /\ e.status < 600)) =>
             EndsAt(c, i) /\ result[c].kind = "error" /\ result[c].statusCode = e.status

\* a first attempt answered with status 600 ended a call that had attempts left
C31_Witness ==
  /\ retryConfig.maxRetries = 3
  /\ Len(reqLog["c1"]) = 1
  /\ reqLog["c1"][1].resp
  /\ reqLog["c1"][1].status = 600
  /\ cpc["c1"] = "threw"

\* C32: getAvailableSlots given a username, a slug and an id together goes
\* by username and slug: the one call made is getSlotsByUsername, its
\* request carries no eventTypeId, and getSlotsByEventTypeId and the list of
\* event types are not called.
C32_UsernameTakesPrecedence ==
  (/\ svcIn.op = "getAvailableSlots"
   /\ GetSlotsInputSchema(svcIn.input)
   /\ NamesUserAndSlug(svcIn.input)
   /\ svcIn.input.eventTypeId.t = "number")
  => /\ SentByUser(svcIn.input)
     /\ config["c2"] = SlotsByUsernameConfig(args)
     /\ config["c2"].params.eventTypeId = Undef
     /\ args.eventTypeId = Undef
     /\ config["c1"] = NoConfig
     /\ issued["c1"] = 0
     /\ thrown # NeitherError

\* the slots of alice/intro were asked for although id 1 was given as well
C32_Witness ==
  /\ svcIn.op = "getAvailableSlots"
  /\ svcIn.input.username = Str("alice")
  /\ svcIn.input.eventTypeSlug = Str("intro")
  /\ svcIn.input.eventTypeId = Num(1)
  /\ issued["c2"] = 1
  /\ config["c2"].params.username = Str("alice")

\* the entries of a list
Range(l) == { l[i] : i \in 1..Len(l) }

\* C33: the successful and the failed partition split the retained results:
\* every entry is in exactly one of them; a successful entry is the
\* returned result, with success = true, of a feature that could load and
\* was registered; results of skipped features, of thrown errors and of
\* registrations that returned a failure are in the failed partition.
C33_PartitionsSplitOutcomes ==
  LET S == Successful(registeredFeatures)
      F == Failed(registeredFeatures)
  IN /\ Len(S) + Len(F) = Len(registeredFeatures)
     /\ Range(S) \cap Range(F) = {}
     /\ Range(S) \cup Range(F) = Range(registeredFeatures)
     /\ \A e \in Range(S) :
          /\ e.value.success
          /\ e.value.error = Absent
          /\ canLoadOf[e.value.id[2]] = "yes"
          /\ registerCalls[e.value.id[2]] > 0
     /\ \A t \in Tasks : \A i \in 1..Len(results[t]) :
          LET r == results[t][i] IN
            (r.via # "returned" \/ ~r.result.success) =>
              \A e \in Range(registeredFeatures) :
                e.value = r.result => e \in Range(F) /\ e \notin Range(S)
     /\ \A e \in Range(registeredFeatures) :
          canLoadOf[e.value.id[2]] # "yes" => e \in Range(F)

\* one feature registered, one was skipped and one threw
C33_Witness ==
  /\ Len(Successful(registeredFeatures)) = 1
  /\ Len(Failed(registeredFeatures)) = 2
  /\ \E e \in Range(registeredFeatures) : e.value.error = StandardSkipMessage(e.key)
  /\ \E e \in Range(registeredFeatures) : e.value.error = "boom"

\* C34: the results map has one result per name at most, and only under
\* names of features added; when a call of registerAllFeatures returns, the
\* names in the map are the names of the features, also after several calls.
C34_OneOutcomePerName ==
  /\ [](/\ UniqueKeys(registeredFeatures)
        /\ MapKeys(registeredFeatures) \subseteq MapKeys(features)
        /\ Len(registeredFeatures) <= Len(features))
  /\ [][\A t \in Requests :
          Returns(t) =>
            /\ MapKeys(registeredFeatures') = MapKeys(features')
            /\ Len(registeredFeatures') = Len(features')]_vars

\* a second call returned and every result of the first was overwritten
C34_Witness ==
  /\ tpc[1] = "returned"
  /\ tpc[2] = "returned"
  /\ Len(features) = 3
  /\ Len(registeredFeatures) = 3
  /\ \A i \in 1..Len(registeredFeatures) : registeredFeatures[i].value.id[1] = 2

\* C35: register() of the Cal.com feature never throws: its result is
\* always a returned one, and when the feature could load but its
\* configuration or a binding failed the result has success = false and an
\* error message and is retained as a failure.
C35_CalcomRegisterNeverThrows ==
  /\ \A t \in Tasks : \A i \in 1..Len(results[t]) :
       LET e == results[t][i] IN
         e.of = "calcomFeature" =>
           /\ e.via \in {"skipped", "returned"}
           /\ e.via = "returned" <=> canLoadOf["calcomFeature"] = "yes"
           /\ (e.via = "returned" /\ ~e.result.success) => e.result.error # Absent
  /\ (MapHas(registeredFeatures, "Cal.com") /\ canLoadOf["calcomFeature"] = "yes") =>
       LET r == MapGet(registeredFeatures, "Cal.com") IN
         ~r.success =>
           /\ r.error = "Cal.com feature configuration error"
           /\ registeredFeatures[2] \in Range(Failed(registeredFeatures))

\* the server started with a Cal.com feature that could load and failed
C35_Witness ==
  /\ canLoadOf["calcomFeature"] = "yes"
  /\ tpc[0] = "listening"
  /\ MapHas(registeredFeatures, "Cal.com")
  /\ ~MapGet(registeredFeatures, "Cal.com").success
  /\ registerCalls["calcomFeature"] >= 1

\* ------------------------------------------------------------------------
\* The client of the service, cleanup and the map handed out
\* ------------------------------------------------------------------------

\* C37: the service has no client before an operation is called on it, it
\* constructs one client at most, and from then on the field never changes:
\* every operation that gets a client gets that instance, and every request
\* under way is one of an operation holding it.
C37_LazySingleton ==
  /\ calcomClient = 0
  /\ [](/\ calcomClient \in {0, 1}
        /\ client \in {0, calcomClient}
        /\ operations = 0 => calcomClient = 0
        /\ \A c \in Calls : cpc[c] # "off" => client # 0 /\ client = calcomClient)
  /\ [][/\ calcomClient # 0 => calcomClient' = calcomClient
        /\ calcomClient' # calcomClient =>
             /\ svcPc = "idle"
             /\ operations' = operations + 1
             /\ client' = calcomClient'
        /\ (client' # client /\ client' # 0) => client' = calcomClient']_vars

\* a second operation sends its request on the client the first constructed
C37_Witness ==
  /\ operations = 2
  /\ calcomClient = 1
  /\ client = 1
  /\ svcIn.op = "getSlotsForEventType"
  /\ cpc["c1"] = "inflight"

\* C36: FeatureRegistry.cleanup() invokes cleanup() once on every feature
\* added that defines it, whatever became of its registration; when all
\* cleanups complete the results map is emptied and the features are kept;
\* when a cleanup fails the results map is left as it was.
C36_CleanupReachesEveryFeature ==
  [][/\ (cleanupPc = "idle" /\ cleanupPc' # "idle") =>
          /\ \A i \in 1..Len(features) :
               LET f == features[i].value IN
                 cleanupOf[f] # "none" => cleanupCalls'[f] = cleanupCalls[f] + 1
          /\ \A f \in FeatureObjs :
               (cleanupOf[f] = "none" \/ ~Holds(features, f)) =>
                 cleanupCalls'[f] = cleanupCalls[f]
     /\ (cleanupPc # "done" /\ cleanupPc' = "done") =>
          registeredFeatures' = <<>> /\ features' = features
     /\ (cleanupPc # "rejected" /\ cleanupPc' = "rejected") =>
          registeredFeatures' = registeredFeatures /\ features' = features]_vars

\* C38: the map getRegistrationResults() returns has the entries of the
\* results map and is a copy: a write of the caller to it (a set, a delete,
\* a clear) leaves the results map and both partitions as they were, and a
\* later write of the registry leaves the map handed out as it was.
C38_ResultsAreACopy ==
  [][/\ (~handle.taken /\ handle'.taken) =>
          handle'.entries = registeredFeatures /\ registeredFeatures' = registeredFeatures
     /\ (handle.taken /\ handle'.entries # handle.entries) =>
          /\ registeredFeatures' = registeredFeatures
          /\ Successful(registeredFeatures') = Successful(registeredFeatures)
          /\ Failed(registeredFeatures') = Failed(registeredFeatures)
     /\ (handle.taken /\ registeredFeatures' # registeredFeatures) =>
          handle' = handle]_vars

\* the caller emptied its map and set an entry of its own, and the registry
\* still holds its two results, one in each partition
C38_Witness ==
  /\ handle.taken
  /\ handle.entries = <<[key |-> "Injected", value |-> InjectedResult]>>
  /\ Len(registeredFeatures) = 2
  /\ Len(Successful(registeredFeatures)) = 1
  /\ Len(Failed(registeredFeatures)) = 1

====
